---------------------------- MODULE Spec2Model ----------------------------
(***************************************************************************)
(* Model of the eSign signing core: the PDF signing engine (pdf.rs), the   *)
(* PKCS#11 token manager (pkcs11/manager.rs) and the command layer that    *)
(* owns the process-wide manager (lib.rs).                                 *)
(*                                                                         *)
(* Byte strings are sequences of integers 0..255.  Offsets into a byte     *)
(* string are 0-based as in the Rust source; Slice(s, a, b) is s[a..b].    *)
(* A Rust array index k is the tuple index k+1, so byte_range[0..3] of the *)
(* source is byte_range[1..4] here.                                        *)
(***************************************************************************)
EXTENDS Integers, Sequences, FiniteSets, TLC

(***************************************************************************)
(* Bounds of the model.                                                    *)
(***************************************************************************)
\* Size in bytes of the /Contents placeholder.  The source value is 65536
\* (pdf.rs:15); the model keeps the same code paths with a window that is
\* just large enough for the smallest CMS the builder emits.
SIGNATURE_CONTAINER_SIZE == 200

\* Largest accepted distance of the /Contents match from the end of file.
\* The source value is 1000000 (pdf.rs:616), scaled with the container.
SIGNATURE_MAX_DISTANCE_FROM_EOF == 460

None == -1

(***************************************************************************)
(* Byte-string helpers                                                     *)
(***************************************************************************)
Slice(s, a, b) == SubSeq(s, a + 1, b)

Repeat(b, n) == [i \in 1..n |-> b]

Max(S) == CHOOSE x \in S : \A y \in S : y <= x

Min(S) == CHOOSE x \in S : \A y \in S : x <= y

\* haystack.windows(n).position(|w| w == needle)
find_bytes(haystack, needle) ==
    LET hits == {i \in 0..(Len(haystack) - Len(needle)) :
                    Slice(haystack, i, i + Len(needle)) = needle}
    IN  IF hits = {} THEN None ELSE Min(hits)

\* haystack.windows(n).rposition(|w| w == needle)
rposition(haystack, needle) ==
    LET hits == {i \in 0..(Len(haystack) - Len(needle)) :
                    Slice(haystack, i, i + Len(needle)) = needle}
    IN  IF hits = {} THEN None ELSE Max(hits)

\* bytes[from..].iter().position(|&b| b == byte).map(|p| from + p)
position_from(bytes, from, byte) ==
    LET hits == {i \in from..(Len(bytes) - 1) : bytes[i + 1] = byte}
    IN  IF hits = {} THEN None ELSE Min(hits)

\* Decimal rendering of a usize by format!("{}")
RECURSIVE Dec(_)
Dec(n) == IF n < 10 THEN <<48 + n>> ELSE Dec(n \div 10) \o <<48 + (n % 10)>>

HexDigitUpper(n) == IF n < 10 THEN 48 + n ELSE 55 + n

\* hex::encode_upper
hex_encode_upper(data) ==
    [i \in 1..(2 * Len(data)) |->
        IF i % 2 = 1 THEN HexDigitUpper(data[(i + 1) \div 2] \div 16)
                     ELSE HexDigitUpper(data[i \div 2] % 16)]

\* format!("{:width$}", s): left-aligned, space padded, never truncated
pad_to_width(s, width) ==
    IF Len(s) < width THEN s \o Repeat(32, width - Len(s)) ELSE s

(***************************************************************************)
(* SHA-256 stand-in: a 2-byte position-weighted checksum.  It is a         *)
(* function of every byte of its input and of the byte order, which is     *)
(* what the digest claims depend on.                                       *)
(***************************************************************************)
\* Sum of i * (s[i] + 1) over a..b, by halving the range
RECURSIVE WeightedSum(_, _, _)
WeightedSum(s, a, b) ==
    IF a > b THEN 0
    ELSE IF a = b THEN (a * (s[a] + 1)) % 65521
    ELSE LET m == (a + b) \div 2
         IN  (WeightedSum(s, a, m) + WeightedSum(s, m + 1, b)) % 65521

Sha256(s) == LET h == WeightedSum(s, 1, Len(s)) IN <<h \div 256, h % 256>>

(***************************************************************************)
(* ASN.1 / DER builders (pdf.rs helper functions)                          *)
(***************************************************************************)
\* variant: the short form is used up to and including 128
extend_with_length_short_form_128(buf, len) ==
    IF len <= 128 THEN buf \o <<len % 256>>
    ELSE IF len < 256 THEN buf \o <<129, len % 256>>
    ELSE IF len < 65536 THEN buf \o <<130, (len \div 256) % 256, len % 256>>
    ELSE buf \o <<131, (len \div 65536) % 256, (len \div 256) % 256, len % 256>>

\* pdf.rs:1158-1174
extend_with_length(buf, len) ==
    IF len < 128 THEN buf \o <<len % 256>>
    ELSE IF len < 256 THEN buf \o <<129, len % 256>>
    ELSE IF len < 65536 THEN buf \o <<130, (len \div 256) % 256, len % 256>>
    ELSE buf \o <<131, (len \div 65536) % 256, (len \div 256) % 256, len % 256>>

get_length_bytes(data) ==
    IF Len(data) = 0 THEN 0
    ELSE IF data[1] < 128 THEN 1
    ELSE 1 + (data[1] % 128)

build_sequence(content) == extend_with_length(<<48>>, Len(content)) \o content

build_set(content) == extend_with_length(<<49>>, Len(content)) \o content

build_oid(oid_bytes) == <<6, Len(oid_bytes) % 256>> \o oid_bytes

build_octet_string(data) == extend_with_length(<<4>>, Len(data)) \o data

build_attribute(oid, value) == build_sequence(build_oid(oid) \o build_set(value))

OID_sha256 == <<96, 134, 72, 1, 101, 3, 4, 2, 1>>
OID_content_type == <<42, 134, 72, 134, 247, 13, 1, 9, 3>>
OID_data == <<42, 134, 72, 134, 247, 13, 1, 7, 1>>
OID_message_digest == <<42, 134, 72, 134, 247, 13, 1, 9, 4>>
OID_signing_time == <<42, 134, 72, 134, 247, 13, 1, 9, 5>>
OID_rsa_sha256 == <<42, 134, 72, 134, 247, 13, 1, 1, 11>>
OID_signed_data == <<42, 134, 72, 134, 247, 13, 1, 7, 2>>

build_sha256_algorithm_identifier ==
    build_sequence(build_oid(OID_sha256) \o <<5, 0>>)

\* chrono::Utc::now().format("%y%m%d%H%M%SZ"): the clock readings the model
\* draws from ("250101000000Z" and "261101120000Z").
UtcClock == { <<50, 53, 48, 49, 48, 49, 48, 48, 48, 48, 48, 48, 90>>,
              <<50, 54, 49, 49, 48, 49, 49, 50, 48, 48, 48, 48, 90>> }

build_utc_time(time_str) == <<23, Len(time_str) % 256>> \o time_str


(***************************************************************************)
(* Certificates.  x509_parser is outside the repository; the model keeps   *)
(* the three fields the code reads: the serial INTEGER, the raw issuer     *)
(* Name and the raw subject Name, DER-encoded inside one SEQUENCE, plus    *)
(* opaque trailing bytes standing for the rest of the certificate.         *)
(***************************************************************************)
MakeName(n) == <<48, 1, n>>

MakeCert(serial, issuer, subject, rest) ==
    build_sequence(<<2, 1, serial>> \o MakeName(issuer) \o MakeName(subject) \o rest)

\* Value of a DER length field starting at data[1]
DerLength(data) ==
    IF data[1] < 128 THEN data[1]
    ELSE IF data[1] = 129 THEN data[2]
    ELSE IF data[1] = 130 THEN data[2] * 256 + data[3]
    ELSE None

\* X509Certificate::from_der: [ok, serial, issuer, subject]
x509_from_der(der) ==
    LET bad == [ok |-> FALSE, serial |-> <<>>, issuer |-> <<>>, subject |-> <<>>]
    IN  IF Len(der) < 11 \/ der[1] # 48 THEN bad
        ELSE LET hl   == 1 + get_length_bytes(Tail(der))
                 body == Slice(der, hl, Len(der))
             IN  IF DerLength(Tail(der)) # Len(body) \/ Len(body) < 9 THEN bad
                 ELSE IF body[1] # 2 \/ body[2] # 1 \/ body[4] # 48 \/ body[5] # 1
                         \/ body[7] # 48 \/ body[8] # 1 THEN bad
                 ELSE [ok |-> TRUE,
                       serial  |-> <<body[3]>>,
                       issuer  |-> Slice(body, 3, 6),
                       subject |-> Slice(body, 6, 9)]

(***************************************************************************)
(* CMS builder (pdf.rs: build_signed_attributes .. extract_issuer_and_     *)
(* serial).  A failing step is reported as the record [ok |-> FALSE].      *)
(***************************************************************************)
Ok(v) == [ok |-> TRUE, val |-> v]
Err(e) == [ok |-> FALSE, val |-> e]

\* Variant of build_signed_attributes that leaves the messageDigest out
build_signed_attributes_no_digest(document_digest, time_str) ==
    build_set(
        build_attribute(OID_content_type, build_oid(OID_data))
        \o build_attribute(OID_signing_time, build_utc_time(time_str)))

build_signed_attributes(document_digest, time_str) ==
    build_set(
        build_attribute(OID_content_type, build_oid(OID_data))
        \o build_attribute(OID_message_digest, build_octet_string(document_digest))
        \o build_attribute(OID_signing_time, build_utc_time(time_str)))

extract_issuer_and_serial(cert_der) ==
    LET cert == x509_from_der(cert_der)
    IN  IF ~cert.ok THEN Err("Pdf:Failed to parse certificate")
        ELSE Ok(build_sequence(
                 cert.issuer
                 \o extend_with_length(<<2>>, Len(cert.serial)) \o cert.serial))

build_signer_info(signed_attrs, sig, cert_der) ==
    LET sid == extract_issuer_and_serial(cert_der)
        attrs_content ==
            Slice(signed_attrs, 1 + get_length_bytes(Tail(signed_attrs)), Len(signed_attrs))
    IN  IF ~sid.ok THEN sid
        ELSE Ok(build_sequence(
                 <<2, 1, 1>>
                 \o sid.val
                 \o build_sha256_algorithm_identifier
                 \o extend_with_length(<<160>>, Len(attrs_content)) \o attrs_content
                 \o build_sequence(build_oid(OID_rsa_sha256) \o <<5, 0>>)
                 \o build_octet_string(sig)))

build_cms_structure(cert_der, signed_attrs, sig) ==
    LET signer_info == build_signer_info(signed_attrs, sig, cert_der)
    IN  IF ~signer_info.ok THEN signer_info
        ELSE LET content ==
                     <<2, 1, 3>>
                     \o build_set(build_sha256_algorithm_identifier)
                     \o build_sequence(build_oid(OID_data))
                     \o extend_with_length(<<160>>, Len(cert_der)) \o cert_der
                     \o build_set(signer_info.val)
                 signed_data == build_sequence(content)
             IN  Ok(build_sequence(
                      build_oid(OID_signed_data)
                      \o extend_with_length(<<160>>, Len(signed_data)) \o signed_data))

\* Result of get_timestamp before it has been called
NoTimestamp == [kind |-> "none", token |-> <<>>]

OID_signature_time_stamp_token == <<42, 134, 72, 134, 247, 13, 1, 9, 16, 2, 14>>

\* pdf.rs:881-900: the [1] IMPLICIT unsignedAttrs holding one
\* signatureTimeStampToken attribute whose value SET wraps the token
build_unsigned_attrs(timestamp_token) ==
    LET timestamp_attr ==
            build_sequence(build_oid(OID_signature_time_stamp_token)
                           \o build_set(timestamp_token))
    IN  extend_with_length(<<161>>, Len(timestamp_attr)) \o timestamp_attr

\* add_timestamp_to_cms: builds the unsigned attribute, looks for the
\* signature OCTET STRING, and on every path returns the CMS it was given.
add_timestamp_to_cms(cms, timestamp_token) == Ok(cms)

(***************************************************************************)
(* PDF byte-level operations                                               *)
(***************************************************************************)
BYTE_RANGE_MARKER ==
    <<47, 66, 121, 116, 101, 82, 97, 110, 103, 101, 32, 91, 48, 32, 48, 32, 48, 32, 48, 93>>

CONTENTS_SPACE_LT == <<47, 67, 111, 110, 116, 101, 110, 116, 115, 32, 60>>

CONTENTS_LT == <<47, 67, 111, 110, 116, 101, 110, 116, 115, 60>>

\* Variant of calculate_byte_range whose second span starts one byte late
calculate_byte_range_late_span(pdf_bytes) ==
    LET first_try      == rposition(pdf_bytes, CONTENTS_SPACE_LT)
        contents_start == IF first_try # None THEN first_try
                          ELSE rposition(pdf_bytes, CONTENTS_LT)
        hex_start      == position_from(pdf_bytes, contents_start, 60)
        hex_end        == position_from(pdf_bytes, hex_start, 62)
    IN  IF contents_start = None \/ hex_start = None \/ hex_end = None
        THEN Err("Pdf:Cannot find /Contents in PDF")
        ELSE Ok(<<0, hex_start, hex_end + 1, Len(pdf_bytes) - hex_end>>)

calculate_byte_range(pdf_bytes) ==
    LET first_try      == rposition(pdf_bytes, CONTENTS_SPACE_LT)
        contents_start == IF first_try # None THEN first_try
                          ELSE rposition(pdf_bytes, CONTENTS_LT)
        min_position   == IF Len(pdf_bytes) > SIGNATURE_MAX_DISTANCE_FROM_EOF
                          THEN Len(pdf_bytes) - SIGNATURE_MAX_DISTANCE_FROM_EOF
                          ELSE 0
        hex_start      == position_from(pdf_bytes, contents_start, 60)
        hex_end        == position_from(pdf_bytes, hex_start, 62)
    IN  IF contents_start = None THEN Err("Pdf:Cannot find /Contents in PDF")
        ELSE IF contents_start < min_position
             THEN Err("Pdf:Signature container at unexpected position")
        ELSE IF hex_start = None THEN Err("Pdf:Cannot find '<' after /Contents")
        ELSE IF hex_end = None THEN Err("Pdf:Cannot find end of /Contents")
        ELSE Ok(<<0, hex_start, hex_end + 1, Len(pdf_bytes) - (hex_end + 1)>>)

compute_document_digest(pdf_bytes, br) ==
    LET second_start == br[3]
        second_end   == second_start + br[4]
    IN  Sha256(Slice(pdf_bytes, br[1], br[1] + br[2])
               \o (IF second_end <= Len(pdf_bytes)
                   THEN Slice(pdf_bytes, second_start, second_end)
                   ELSE <<>>))

\* pdf_bytes[a..b].copy_from_slice(src), defined when b - a = Len(src)
copy_from_slice(pdf_bytes, a, b, src) ==
    [i \in 1..Len(pdf_bytes) |-> IF i > a /\ i <= b THEN src[i - a] ELSE pdf_bytes[i]]

format_byte_range(br) ==
    <<47, 66, 121, 116, 101, 82, 97, 110, 103, 101, 32, 91>>
    \o Dec(br[1]) \o <<32>> \o Dec(br[2]) \o <<32>> \o Dec(br[3]) \o <<32>> \o Dec(br[4])
    \o <<93>>

\* Variant of update_byte_range that writes the new text truncated to the
\* placeholder width, so the rewrite always goes through
update_byte_range_truncating(pdf_bytes, br) ==
    LET pos    == find_bytes(pdf_bytes, BYTE_RANGE_MARKER)
        padded == pad_to_width(format_byte_range(br), Len(BYTE_RANGE_MARKER))
    IN  IF pos = None THEN [kind |-> "ok", val |-> pdf_bytes]
        ELSE [kind |-> "ok",
              val |-> copy_from_slice(pdf_bytes, pos, pos + Len(BYTE_RANGE_MARKER),
                                      SubSeq(padded, 1, Len(BYTE_RANGE_MARKER)))]

\* First half of embed_signature (pdf.rs:1024-1034): the in-place rewrite of
\* the /ByteRange placeholder.  copy_from_slice panics when the source and
\* destination lengths differ.
update_byte_range(pdf_bytes, br) ==
    LET pos    == find_bytes(pdf_bytes, BYTE_RANGE_MARKER)
        padded == pad_to_width(format_byte_range(br), Len(BYTE_RANGE_MARKER))
    IN  IF pos = None THEN [kind |-> "ok", val |-> pdf_bytes]
        ELSE IF Len(padded) # Len(BYTE_RANGE_MARKER)
             THEN [kind |-> "panic", val |-> "copy_from_slice: length mismatch"]
        ELSE [kind |-> "ok",
              val |-> copy_from_slice(pdf_bytes, pos, pos + Len(BYTE_RANGE_MARKER), padded)]

\* embed_signature: result kind is "ok" (val = signed bytes), "err" or "panic"
embed_signature(pdf_bytes, cms, br) ==
    LET updated        == update_byte_range(pdf_bytes, br)
        hex_signature  == hex_encode_upper(cms)
        target_size    == SIGNATURE_CONTAINER_SIZE * 2
        padded_signature ==
            IF Len(hex_signature) < target_size
            THEN hex_signature \o Repeat(48, target_size - Len(hex_signature))
            ELSE hex_signature
        contents_start == br[2] + 1
        contents_end   == br[3] - 1
    IN  IF updated.kind = "panic" THEN updated
        ELSE IF Len(hex_signature) > SIGNATURE_CONTAINER_SIZE * 2
             THEN [kind |-> "err", val |-> "Pdf:Signature too large"]
        ELSE IF contents_end - contents_start # SIGNATURE_CONTAINER_SIZE * 2
             THEN [kind |-> "err", val |-> "Pdf:Signature container size mismatch"]
        ELSE [kind |-> "ok",
              val |-> copy_from_slice(updated.val, contents_start, contents_end,
                                      padded_signature)]


(***************************************************************************)
(* State                                                                   *)
(***************************************************************************)
VARIABLES
    \* --- one PdfSigningEngine::sign_pdf call (pdf.rs) ---
    pdf_pc,         \* position inside sign_pdf / sign_pdf_bytes
    cert_der,       \* argument cert_der
    tsa_client,     \* self.tsa_client.is_some()
    ts_result,      \* what tsa_client.get_timestamp returned (kind "none": not called)
    prepared_pdf,   \* bytes returned by prepare_pdf_for_signing
    byte_range,     \* byte range returned by prepare_pdf_for_signing
    digest,         \* compute_document_digest result
    signed_attrs,   \* build_signed_attributes result
    signature,      \* bytes returned by sign_fn
    cms_data,       \* CMS handed to embed_signature
    signed_pdf,     \* bytes returned by sign_pdf_bytes
    out_written,    \* std::fs::write on the output path has happened
    out_file,       \* content written to the output path
    pdf_err,        \* error returned by sign_pdf ("" when none)
    trace,          \* history: the steps of the call, in order
    sign_calls      \* history: the arguments sign_fn was invoked with

pdf_vars == <<pdf_pc, cert_der, tsa_client, ts_result, prepared_pdf, byte_range, digest,
              signed_attrs, signature, cms_data, signed_pdf, out_written,
              out_file, pdf_err, trace, sign_calls>>

VARIABLES
    \* --- one TokenManager shared by threads (pkcs11/manager.rs) ---
    session,            \* Mutex<Option<Session>>: 0 is None, else the session handle
    signing_key,        \* Mutex<Option<ObjectHandle>>: 0 is None
    certificate_der,    \* Mutex<Option<Vec<u8>>>: <<>> is None, <<der>> is Some(der)
    certificate_chain,  \* Mutex<Vec<Vec<u8>>>
    mu,                 \* holder of each field mutex (0 when free)
    open_sessions,      \* token side: session handles opened and not yet closed
    stored_once,        \* history: some login has stored a session
    t_pc,               \* per thread: position inside the running method
    t_loc,              \* per thread: locals of the running method
    t_ret               \* per thread: the value the method returned

tok_vars == <<session, signing_key, certificate_der, certificate_chain, mu,
              open_sessions, stored_once, t_pc, t_loc, t_ret>>

VARIABLES
    \* --- the command layer (lib.rs) and the provider library ---
    token_manager,  \* AppState.token_manager: 0 is None, else the manager's context
    contexts,       \* provider contexts that are loaded and not yet dropped
    a_pc,           \* per thread: position inside init_token_manager
    a_path,         \* per thread: argument library_path
    a_ctx,          \* per thread: context of the manager under construction
    a_ret,          \* per thread: "" while running, else "ok" or "err"
    app_mu,         \* holder of the AppState.token_manager mutex (0 when free)
    a_old,          \* per thread: context of the manager being dropped
    session_ctx,    \* context through which the stored session was opened (0: none)
    poisoned,       \* the AppState.token_manager mutex is poisoned
    a_cmd,          \* per thread: outcome of the command that has just returned
    login_live      \* history: a login on the stored manager succeeded, and no
                    \* logout and no drop of that manager happened since

app_vars == <<token_manager, contexts, a_pc, a_path, a_ctx, a_ret, app_mu, a_old,
              session_ctx, poisoned, a_cmd, login_live>>

VARIABLES
    \* --- prepare_pdf_for_signing on the object graph of one document (pdf.rs) ---
    p_pc,       \* position inside prepare_pdf_for_signing
    p_doc_in,   \* the document as loaded
    p_doc,      \* the document being modified
    p_page,     \* params.page
    p_acro,     \* acro_form_id: "none", "existing" or "created"
    p_widget,   \* widget_id (0 while not created)
    p_err       \* error returned ("" when none)

prep_vars == <<p_pc, p_doc_in, p_doc, p_page, p_acro, p_widget, p_err>>

VARIABLES
    \* --- one TokenManager::build_certificate_chain call (pkcs11/manager.rs) ---
    c_pc,         \* "idle", "loop" (inside the for loop) or "done" (returned)
    c_all_certs,  \* argument all_certs
    c_chain,      \* local chain
    c_hops        \* iterations of the for loop started so far

chain_vars == <<c_pc, c_all_certs, c_chain, c_hops>>

VARIABLES
    \* --- one TsaClient::get_timestamp call (tsa.rs) ---
    tsa_pc,      \* "idle", "loop" (inside the for loop) or "done" (returned)
    urls,        \* local urls: the primary URL followed by the fallbacks
    url_idx,     \* 1-based index of the URL the loop is at
    attempted,   \* history: the URLs a request was sent to, in order
    last_error,  \* local last_error ("" is None)
    tsa_ret      \* the value get_timestamp returned (kind "none" while running)

tsa_vars == <<tsa_pc, urls, url_idx, attempted, last_error, tsa_ret>>

VARIABLES
    \* --- one DER length written by extend_with_length and read back (pdf.rs, tsa.rs) ---
    len_pc,      \* "idle", "input", "encoded" or "parsed"
    len_in,      \* argument len
    len_tag,     \* content of buf before the call
    len_buf,     \* buf after the call
    len_parsed,  \* parse_asn1_length on the bytes appended
    len_bytes    \* get_length_bytes on the bytes appended

len_vars == <<len_pc, len_in, len_tag, len_buf, len_parsed, len_bytes>>

VARIABLES
    \* --- one TokenManager::list_slots call (pkcs11/manager.rs) ---
    ls_pc,       \* "idle", "loop" (inside the for loop), "after" or "done"
    slots,       \* local slots: what get_slots_with_token returned
    slot_idx,    \* 1-based index of the slot the loop is at
    tokens,      \* local tokens
    errors,      \* local errors
    introspected,\* history: per slot visited, whether get_token_info succeeded
    ls_ret       \* the value list_slots returned (kind "none" while running)

slot_vars == <<ls_pc, slots, slot_idx, tokens, errors, introspected, ls_ret>>

\* State of the functions that are exercised on their own
unit_vars == <<chain_vars, tsa_vars, len_vars, slot_vars>>

vars == <<pdf_vars, tok_vars, app_vars, prep_vars, unit_vars>>

(***************************************************************************)
(* Inputs of the signing call                                              *)
(***************************************************************************)
\* Bytes the rest of a certificate contributes (extensions, key, signature)
CertRestSmall == <<>>

CertRestLarge == Repeat(170, 12)

Certs == { MakeCert(7, 1, 2, CertRestSmall),      \* parses, CMS fits the window
           MakeCert(9, 1, 3, CertRestLarge),      \* parses, CMS exceeds the window
           <<48, 3, 1, 2, 3>> }                   \* rejected by the X.509 parser

\* Signatures returned by the token (RSA signature bytes, shortened)
Signatures == { <<222, 173, 190>> }

\* Paths: what canonicalize / extension / starts_with see of a path
InputPaths == [exists : BOOLEAN, ext : {"pdf", "PDF", "txt"}, system : BOOLEAN]

OutputPaths == [parent_exists : BOOLEAN, ext : {"pdf", "PDF", "txt"}, system : BOOLEAN]

to_ascii_lowercase(ext) == IF ext = "PDF" THEN "pdf" ELSE ext

validate_pdf_input_path(path) ==
    IF ~path.exists THEN Err("Pdf:Invalid input path")
    ELSE IF to_ascii_lowercase(path.ext) # "pdf" THEN Err("Pdf:Not a PDF file")
    ELSE IF path.system THEN Err("Pdf:Cannot read from system directory")
    ELSE Ok("canonical")

validate_pdf_output_path(path) ==
    IF ~path.parent_exists THEN Err("Pdf:Output directory does not exist")
    ELSE IF to_ascii_lowercase(path.ext) # "pdf" THEN Err("Pdf:Output must have .pdf extension")
    ELSE IF path.system THEN Err("Pdf:Cannot write to system directory")
    ELSE Ok("path")

\* Document::load_mem failures and the message sign_pdf_bytes maps them to
LoadErrors == {"Decryption", "UnsupportedSecurityHandler", "Parse", "Xref",
               "InvalidObjectStream", "InvalidStream", "Decompress"}

(***************************************************************************)
(* Serialized form of the prepared document.  lopdf's writer is outside    *)
(* the repository; the code itself allows for both spacings after a        *)
(* dictionary key ("/Contents <" and "/Contents<"), so the model draws     *)
(* the spacing of the hex string and of the array independently.  The      *)
(* signature dictionary is written in insertion order: Contents, then      *)
(* ByteRange (create_signature_dict).  Pre stands for the objects of the   *)
(* input document, which may carry a literal /Contents hex string of       *)
(* their own; Post for the objects and trailer that follow.                *)
(***************************************************************************)
PDF_HEADER == <<37, 80, 68, 70>>

SPURIOUS_SPACE == <<47, 67, 111, 110, 116, 101, 110, 116, 115, 32, 60, 52, 49, 62>>

SPURIOUS_NOSPACE == <<47, 67, 111, 110, 116, 101, 110, 116, 115, 60, 52, 49, 62>>

PreSet == { PDF_HEADER,
            PDF_HEADER \o SPURIOUS_SPACE,
            PDF_HEADER \o SPURIOUS_NOSPACE,
            PDF_HEADER \o SPURIOUS_SPACE \o Repeat(120, 30) }

PostSet == { <<37, 37, 69, 79, 70>> }

Spacing == { <<>>, <<32>> }

\* Object::String(vec![0u8; SIGNATURE_CONTAINER_SIZE], Hexadecimal) as written
contents_placeholder == <<60>> \o Repeat(48, 2 * SIGNATURE_CONTAINER_SIZE) \o <<62>>

\* The signature dictionary entries create_signature_dict adds, as written
create_signature_dict(sp_string, sp_array) ==
    <<47, 67, 111, 110, 116, 101, 110, 116, 115>> \o sp_string \o contents_placeholder
    \o <<47, 66, 121, 116, 101, 82, 97, 110, 103, 101>> \o sp_array
    \o <<91, 48, 32, 48, 32, 48, 32, 48, 93>>

save_to(pre, sp_string, sp_array, post) ==
    pre \o create_signature_dict(sp_string, sp_array) \o post

saturating_sub(a, b) == IF a > b THEN a - b ELSE 0

\* add_annotation_to_page: page_iter().nth(page_num.saturating_sub(1))
add_annotation_to_page(page_count, page_num) ==
    IF saturating_sub(page_num, 1) < page_count
    THEN Ok(saturating_sub(page_num, 1) + 1)
    ELSE Err("Signing:InvalidSignaturePage")

MaxPages == 2

(***************************************************************************)
(* sign_pdf, step by step                                                  *)
(***************************************************************************)
PdfInit ==
    /\ pdf_pc = "idle"
    /\ cert_der = <<>>
    /\ tsa_client = FALSE
    /\ ts_result = NoTimestamp
    /\ prepared_pdf = <<>>
    /\ byte_range = <<0, 0, 0, 0>>
    /\ digest = <<>>
    /\ signed_attrs = <<>>
    /\ signature = <<>>
    /\ cms_data = <<>>
    /\ signed_pdf = <<>>
    /\ out_written = FALSE
    /\ out_file = <<>>
    /\ pdf_err = ""
    /\ trace = <<>>
    /\ sign_calls = <<>>

Fail(e) ==
    /\ pdf_pc' = "error"
    /\ pdf_err' = e

\* The caller invokes sign_pdf on an engine built by new() or with_tsa()
SignPdfCall ==
    /\ pdf_pc = "idle"
    /\ \E c \in Certs, t \in BOOLEAN :
          /\ cert_der' = c
          /\ tsa_client' = t
    /\ pdf_pc' = "validate"
    /\ UNCHANGED <<ts_result, prepared_pdf, byte_range, digest, signed_attrs, signature,
                   cms_data, signed_pdf, out_written, out_file, pdf_err, trace,
                   sign_calls>>

\* pdf.rs:238-239
ValidatePaths ==
    /\ pdf_pc = "validate"
    /\ \E inp \in InputPaths, outp \in OutputPaths :
          LET vi == validate_pdf_input_path(inp)
              vo == validate_pdf_output_path(outp)
          IN  IF ~vi.ok THEN Fail(vi.val)
              ELSE IF ~vo.ok THEN Fail(vo.val)
              ELSE pdf_pc' = "read" /\ pdf_err' = pdf_err
    /\ UNCHANGED <<cert_der, tsa_client, ts_result, prepared_pdf, byte_range, digest,
                   signed_attrs, signature, cms_data, signed_pdf, out_written,
                   out_file, trace, sign_calls>>

\* pdf.rs:242-243
ReadInput ==
    /\ pdf_pc = "read"
    /\ \E ok \in BOOLEAN :
          IF ok THEN pdf_pc' = "load" /\ pdf_err' = pdf_err
          ELSE Fail("Pdf:Failed to read PDF file")
    /\ UNCHANGED <<cert_der, tsa_client, ts_result, prepared_pdf, byte_range, digest,
                   signed_attrs, signature, cms_data, signed_pdf, out_written,
                   out_file, trace, sign_calls>>

\* pdf.rs:271-304
LoadDocument ==
    /\ pdf_pc = "load"
    /\ \E r \in {"ok"} \cup LoadErrors :
          IF r = "ok" THEN pdf_pc' = "prepare" /\ pdf_err' = pdf_err
          ELSE Fail("Pdf:load")
    /\ UNCHANGED <<cert_der, tsa_client, ts_result, prepared_pdf, byte_range, digest,
                   signed_attrs, signature, cms_data, signed_pdf, out_written,
                   out_file, trace, sign_calls>>

\* prepare_pdf_for_signing (pdf.rs:342-372)
PreparePdf ==
    /\ pdf_pc = "prepare"
    /\ \E has_catalog \in BOOLEAN, page_count \in 1..MaxPages,
          page \in 0..(MaxPages + 1),
          pre \in PreSet, sp_string \in Spacing, sp_array \in Spacing,
          post \in PostSet :
          LET annot  == add_annotation_to_page(page_count, page)
              output == save_to(pre, sp_string, sp_array, post)
              br     == calculate_byte_range(output)
          IN  IF ~has_catalog
              THEN Fail("Pdf:Failed to get catalog") /\ UNCHANGED <<prepared_pdf, byte_range>>
              ELSE IF ~annot.ok
              THEN Fail(annot.val) /\ UNCHANGED <<prepared_pdf, byte_range>>
              ELSE IF ~br.ok
              THEN Fail(br.val) /\ UNCHANGED <<prepared_pdf, byte_range>>
              ELSE /\ prepared_pdf' = output
                   /\ byte_range' = br.val
                   /\ pdf_pc' = "digest"
                   /\ pdf_err' = pdf_err
    /\ trace' = Append(trace, "prepare")
    /\ UNCHANGED <<cert_der, tsa_client, ts_result, digest, signed_attrs, signature,
                   cms_data, signed_pdf, out_written, out_file, sign_calls>>

\* pdf.rs:310
ComputeDigest ==
    /\ pdf_pc = "digest"
    /\ digest' = compute_document_digest(prepared_pdf, byte_range)
    /\ pdf_pc' = "sign"
    /\ trace' = Append(trace, "digest")
    /\ UNCHANGED <<cert_der, tsa_client, ts_result, prepared_pdf, byte_range, signed_attrs,
                   signature, cms_data, signed_pdf, out_written, out_file,
                   pdf_err, sign_calls>>

\* build_cms_signed_data up to and including the sign_fn call (pdf.rs:690-699)
SignAttributes ==
    /\ pdf_pc = "sign"
    /\ \E now \in UtcClock, sig \in Signatures, token_ok \in BOOLEAN :
          LET attrs == build_signed_attributes(digest, now)
          IN  /\ signed_attrs' = attrs
              /\ sign_calls' = Append(sign_calls, attrs)
              /\ IF token_ok
                 THEN /\ signature' = sig
                      /\ pdf_pc' = "cms"
                      /\ pdf_err' = pdf_err
                 ELSE /\ signature' = signature
                      /\ Fail("Signing:SigningFailed")
    /\ trace' = Append(trace, "sign")
    /\ UNCHANGED <<cert_der, tsa_client, ts_result, prepared_pdf, byte_range, digest,
                   cms_data, signed_pdf, out_written, out_file>>

\* build_cms_structure (pdf.rs:702), then the optional timestamp (pdf.rs:316-332)
BuildCms ==
    /\ pdf_pc = "cms"
    /\ LET cms == build_cms_structure(cert_der, signed_attrs, signature)
       IN  IF ~cms.ok
           THEN Fail(cms.val) /\ cms_data' = cms_data
           ELSE /\ cms_data' = cms.val
                /\ pdf_pc' = IF tsa_client THEN "timestamp" ELSE "embed"
                /\ pdf_err' = pdf_err
    /\ UNCHANGED <<cert_der, tsa_client, ts_result, prepared_pdf, byte_range, digest,
                   signed_attrs, signature, signed_pdf, out_written, out_file,
                   trace, sign_calls>>

\* Timestamp tokens a TSA may return (opaque DER)
TimestampTokens == { <<48, 3, 2, 1, 0>> }

\* variant: a failed timestamp request fails the signing
AddTimestamp_propagates_failure ==
    /\ pdf_pc = "timestamp"
    /\ \E got \in BOOLEAN, token \in TimestampTokens :
          IF got
          THEN /\ ts_result' = [kind |-> "ok", token |-> token]
               /\ cms_data' = add_timestamp_to_cms(cms_data, token).val
               /\ pdf_pc' = "embed"
               /\ pdf_err' = pdf_err
          ELSE /\ ts_result' = [kind |-> "err", token |-> <<>>]
               /\ cms_data' = cms_data
               /\ Fail("Tsa:All TSA servers failed")
    /\ UNCHANGED <<cert_der, tsa_client, prepared_pdf, byte_range, digest,
                   signed_attrs, signature, signed_pdf, out_written, out_file,
                   trace, sign_calls>>

\* pdf.rs:316-329: get_timestamp returned a token, or failed for every
\* server; the error is dropped (Err(_e) => cms_data)
AddTimestamp ==
    /\ pdf_pc = "timestamp"
    /\ \E got \in BOOLEAN, token \in TimestampTokens :
          IF got
          THEN /\ ts_result' = [kind |-> "ok", token |-> token]
               /\ cms_data' = add_timestamp_to_cms(cms_data, token).val
          ELSE /\ ts_result' = [kind |-> "err", token |-> <<>>]
               /\ cms_data' = cms_data
    /\ pdf_pc' = "embed"
    /\ UNCHANGED <<cert_der, tsa_client, prepared_pdf, byte_range, digest,
                   signed_attrs, signature, signed_pdf, out_written, out_file,
                   pdf_err, trace, sign_calls>>

\* Variant of EmbedSignature that stores the prepared bytes at the output
\* path before the signature is spliced
EmbedSignature_writes_first ==
    /\ pdf_pc = "embed"
    /\ LET r == embed_signature(prepared_pdf, cms_data, byte_range)
       IN  CASE r.kind = "ok" ->
                  /\ signed_pdf' = r.val
                  /\ pdf_pc' = "write"
                  /\ pdf_err' = pdf_err
             [] r.kind = "err" ->
                  /\ signed_pdf' = signed_pdf
                  /\ Fail(r.val)
             [] r.kind = "panic" ->
                  /\ signed_pdf' = signed_pdf
                  /\ pdf_pc' = "panic"
                  /\ pdf_err' = r.val
    /\ out_written' = TRUE
    /\ out_file' = prepared_pdf
    /\ trace' = Append(trace, "splice")
    /\ UNCHANGED <<cert_der, tsa_client, ts_result, prepared_pdf, byte_range, digest,
                   signed_attrs, signature, cms_data, sign_calls>>

\* pdf.rs:335
EmbedSignature ==
    /\ pdf_pc = "embed"
    /\ LET r == embed_signature(prepared_pdf, cms_data, byte_range)
       IN  CASE r.kind = "ok" ->
                  /\ signed_pdf' = r.val
                  /\ pdf_pc' = "write"
                  /\ pdf_err' = pdf_err
             [] r.kind = "err" ->
                  /\ signed_pdf' = signed_pdf
                  /\ Fail(r.val)
             [] r.kind = "panic" ->
                  /\ signed_pdf' = signed_pdf
                  /\ pdf_pc' = "panic"
                  /\ pdf_err' = r.val
    /\ trace' = Append(trace, "splice")
    /\ UNCHANGED <<cert_der, tsa_client, ts_result, prepared_pdf, byte_range, digest,
                   signed_attrs, signature, cms_data, out_written, out_file,
                   sign_calls>>

\* pdf.rs:249-250.  A failing write is one that fails to create the file.
WriteOutput ==
    /\ pdf_pc = "write"
    /\ \E ok \in BOOLEAN :
          IF ok
          THEN /\ out_written' = TRUE
               /\ out_file' = signed_pdf
               /\ pdf_pc' = "done"
               /\ pdf_err' = pdf_err
          ELSE /\ UNCHANGED <<out_written, out_file>>
               /\ Fail("Pdf:Failed to write signed PDF")
    /\ trace' = Append(trace, "write")
    /\ UNCHANGED <<cert_der, tsa_client, ts_result, prepared_pdf, byte_range, digest,
                   signed_attrs, signature, cms_data, signed_pdf, sign_calls>>

PdfNext ==
    \/ SignPdfCall
    \/ ValidatePaths
    \/ ReadInput
    \/ LoadDocument
    \/ PreparePdf
    \/ ComputeDigest
    \/ SignAttributes
    \/ BuildCms
    \/ AddTimestamp
    \/ EmbedSignature
    \/ WriteOutput



(***************************************************************************)
(* Properties of the signing call                                          *)
(***************************************************************************)
\* sign_pdf_bytes returned Ok
SignedOk == pdf_pc \in {"write", "done"} \/ (pdf_pc = "error" /\ signed_pdf # <<>>)

CoveredSpans(pdf_bytes, br) ==
    Slice(pdf_bytes, br[1], br[1] + br[2]) \o Slice(pdf_bytes, br[3], br[3] + br[4])

MessageDigestAttribute(d) ==
    build_attribute(OID_message_digest, build_octet_string(d))

IsPrefix(s, t) == Len(s) <= Len(t) /\ s = SubSeq(t, 1, Len(s))

InTrace(step) == \E i \in 1..Len(trace) : trace[i] = step

WindowSize == 2 * SIGNATURE_CONTAINER_SIZE

\* C1: after a successful signing the SHA-256 of the two ByteRange spans of
\* the output equals the digest computed on the prepared bytes and carried
\* by the messageDigest attribute of the CMS; the output has the length of
\* the prepared bytes and differs from them only strictly inside the
\* /Contents hex window.
C1_OutputDigestMatchesCms ==
    SignedOk =>
        /\ Len(signed_pdf) = Len(prepared_pdf)
        /\ Sha256(CoveredSpans(signed_pdf, byte_range)) = digest
        /\ find_bytes(cms_data,
                 MessageDigestAttribute(Sha256(CoveredSpans(signed_pdf, byte_range)))) # None
        /\ \A i \in 1..Len(signed_pdf) :
              signed_pdf[i] # prepared_pdf[i]
                  => (i - 1 > byte_range[2] /\ i - 1 < byte_range[3] - 1)

C1_Witness ==
    /\ pdf_pc = "done"
    /\ signed_pdf # prepared_pdf
    /\ CoveredSpans(signed_pdf, byte_range) = CoveredSpans(prepared_pdf, byte_range)

\* C2: embed_signature completes normally for every byte range, and after a
\* successful signing the output carries, in place of the placeholder and
\* without a change of length, the /ByteRange entry with the computed values.
C2_ByteRangeRewrittenInPlace ==
    /\ pdf_pc # "panic"
    /\ SignedOk =>
          /\ Len(signed_pdf) = Len(prepared_pdf)
          /\ find_bytes(signed_pdf, format_byte_range(byte_range)) # None

\* C3: for every successful signing b0 = 0, b1 + b3 + (b2 - b1) is the
\* length of the output and b2 - b1 is the hex window plus its two angle
\* brackets; when the located window has another size no signed PDF is
\* produced and nothing is written.
C3_ByteRangeExcludesWindow ==
    /\ SignedOk =>
          /\ byte_range[1] = 0
          /\ byte_range[2] + byte_range[4] + (byte_range[3] - byte_range[2])
                = Len(signed_pdf)
          /\ byte_range[3] - byte_range[2] = WindowSize + 2
    /\ (InTrace("splice") /\ byte_range[3] - byte_range[2] # WindowSize + 2)
          => (pdf_pc \in {"error", "panic"} /\ signed_pdf = <<>> /\ ~out_written)

C3_Witness ==
    /\ pdf_pc = "done"
    /\ byte_range[3] - byte_range[2] = WindowSize + 2
    /\ byte_range[2] + byte_range[4] + WindowSize + 2 = Len(out_file)

\* C8: the steps of one sign_pdf call occur in the order prepare, digest,
\* sign, splice, write; sign_fn is invoked at most once (exactly once in a
\* successful call), after the digest was computed, on the DER SET of
\* signed attributes that carries that digest and that the CMS embeds; the
\* splice and the write only follow a successful sign_fn call.
C8_StepOrder ==
    /\ IsPrefix(trace, <<"prepare", "digest", "sign", "splice", "write">>)
    /\ Len(sign_calls) <= 1
    /\ Len(sign_calls) = 1 <=> InTrace("sign")
    /\ Len(sign_calls) = 1 =>
          /\ digest = compute_document_digest(prepared_pdf, byte_range)
          /\ sign_calls[1] = signed_attrs
          /\ sign_calls[1][1] = 49
          /\ DerLength(Tail(sign_calls[1]))
                = Len(sign_calls[1]) - 1 - get_length_bytes(Tail(sign_calls[1]))
          /\ find_bytes(sign_calls[1], MessageDigestAttribute(digest)) # None
    /\ InTrace("splice") =>
          /\ signature \in Signatures
          /\ find_bytes(cms_data, <<160>> \o Tail(sign_calls[1])) # None
    /\ pdf_pc = "done" =>
          trace = <<"prepare", "digest", "sign", "splice", "write">>

C8_Witness ==
    /\ pdf_pc = "done"
    /\ Len(sign_calls) = 1
    /\ out_written

WellSizedWindow == byte_range[3] - byte_range[2] = WindowSize + 2

\* C18: on a prepared PDF whose window has the container size,
\* embed_signature accepts the CMS exactly when its hex encoding fits the
\* window: a fitting CMS is written as upper-case hex right-padded with '0'
\* to the window size, a longer one is refused as too large and no bytes
\* are returned.
C18_CmsAcceptedIffFits ==
    (InTrace("splice") /\ WellSizedWindow)
        => IF 2 * Len(cms_data) <= WindowSize
           THEN /\ signed_pdf # <<>>
                /\ Slice(signed_pdf, byte_range[2] + 1, byte_range[3] - 1)
                      = hex_encode_upper(cms_data)
                           \o Repeat(48, WindowSize - 2 * Len(cms_data))
           ELSE /\ pdf_pc = "error"
                /\ pdf_err = "Pdf:Signature too large"
                /\ signed_pdf = <<>>

\* Offset of the '<' of the last /Contents hex string of the file, in
\* either spacing
LastContentsHexStart(pdf_bytes) ==
    LET spaced   == rposition(pdf_bytes, CONTENTS_SPACE_LT)
        unspaced == rposition(pdf_bytes, CONTENTS_LT)
    IN  Max({IF spaced = None THEN None ELSE spaced + Len(CONTENTS_SPACE_LT) - 1,
             IF unspaced = None THEN None ELSE unspaced + Len(CONTENTS_LT) - 1})

\* C19: whatever /Contents strings, in either spacing, come earlier in the
\* file and whichever spacing the writer used for the signature dictionary,
\* the byte range that calculate_byte_range returns is the window of the
\* last /Contents hex string of the file, the signature placeholder.
C19_LastContentsWindowFound ==
    prepared_pdf # <<>>
        => /\ byte_range[2] = LastContentsHexStart(prepared_pdf)
           /\ WellSizedWindow

\* The CMS build_cms_signed_data returned for the current call
BuiltCms == build_cms_structure(cert_der, signed_attrs, signature).val

IsSuffix(s, t) == Len(s) <= Len(t) /\ s = SubSeq(t, Len(t) - Len(s) + 1, Len(t))

\* C22: when a TSA client is configured, a token was obtained and the signing
\* succeeded, the CMS handed to embed_signature carries, right after the
\* signature value that ends SignerInfo, the [1] IMPLICIT unsignedAttrs with
\* the signatureTimeStampToken attribute wrapping the token, and the length
\* header of the outer SEQUENCE equals the length of its content.
C22_TimestampEmbedded ==
    (SignedOk /\ tsa_client /\ ts_result.kind = "ok") =>
        /\ find_bytes(cms_data, build_octet_string(signature)
                                 \o build_unsigned_attrs(ts_result.token)) # None
        /\ cms_data[1] = 48
        /\ DerLength(Tail(cms_data))
              = Len(cms_data) - 1 - get_length_bytes(Tail(cms_data))

ExistingField == 5

ExistingAnnot == 6

\* AcroForm entry of the catalog with the Fields entry of the AcroForm
AcroShapes ==
    { [kind |-> "absent", fields_kind |-> "missing", fields |-> <<>>, sig_flags |-> 0] }
    \cup
    { [kind |-> k, fields_kind |-> fk, fields |-> f, sig_flags |-> 0] :
          k \in {"ref", "inline"}, fk \in {"array", "ref"},
          f \in {<<>>, <<ExistingField>>} }
    \cup
    { [kind |-> k, fields_kind |-> "missing", fields |-> <<>>, sig_flags |-> 0] :
          k \in {"ref", "inline"} }

\* Annots entry of a page
PageShapes ==
    { [annots_kind |-> "absent", annots |-> <<>>],
      [annots_kind |-> "array", annots |-> <<>>],
      [annots_kind |-> "array", annots |-> <<ExistingAnnot>>],
      [annots_kind |-> "ref", annots |-> <<ExistingAnnot>>] }

PageLists == UNION { [1..n -> PageShapes] : n \in 1..MaxPages }

Documents ==
    { [has_catalog |-> c, acro |-> a, pages |-> ps, max_id |-> 9] :
          c \in BOOLEAN, a \in AcroShapes, ps \in PageLists }

NoDocument ==
    [has_catalog |-> FALSE,
     acro |-> [kind |-> "absent", fields_kind |-> "missing", fields |-> <<>>, sig_flags |-> 0],
     pages |-> <<>>, max_id |-> 0]

\* Document::add_object: the next free object id
add_object(doc) == [doc EXCEPT !.max_id = @ + 1]

\* ensure_acro_form (pdf.rs:375-398): only an indirect /AcroForm is reused;
\* otherwise a new dictionary is added and the catalog entry is set to it
ensure_acro_form(doc) ==
    IF ~doc.has_catalog THEN Err("Pdf:Failed to get catalog")
    ELSE IF doc.acro.kind = "ref" THEN Ok([doc |-> doc, id |-> "existing"])
    ELSE Ok([doc |-> [add_object(doc) EXCEPT
                         !.acro = [kind |-> "ref", fields_kind |-> "array",
                                   fields |-> <<>>, sig_flags |-> 3]],
             id |-> "created"])

\* add_field_to_acro_form (pdf.rs:563-575): pushes only onto a direct array
add_field_to_acro_form(doc, widget_id) ==
    IF doc.acro.fields_kind = "array"
    THEN [doc EXCEPT !.acro.fields = Append(@, widget_id)]
    ELSE doc

\* add_annotation_to_page (pdf.rs:578-609) on the page dictionary: push onto
\* a direct /Annots array, otherwise set /Annots to a new array
add_annotation_to_page_dict(doc, page_num, widget_id) ==
    LET found == add_annotation_to_page(Len(doc.pages), page_num)
        k == found.val
    IN  IF ~found.ok THEN Err(found.val)
        ELSE IF doc.pages[k].annots_kind = "array"
        THEN Ok([doc EXCEPT !.pages[k].annots = Append(@, widget_id)])
        ELSE Ok([doc EXCEPT !.pages[k] =
                    [annots_kind |-> "array", annots |-> <<widget_id>>]])

PrepInit ==
    /\ p_pc = "idle"
    /\ p_doc_in = NoDocument
    /\ p_doc = NoDocument
    /\ p_page = 0
    /\ p_acro = "none"
    /\ p_widget = 0
    /\ p_err = ""

PrepFails(e) ==
    /\ p_pc' = "error"
    /\ p_err' = e

\* prepare_pdf_for_signing is called with a loaded document and params.page
PrepareCall ==
    /\ p_pc = "idle"
    /\ \E doc \in Documents, page \in 0..(MaxPages + 1) :
          /\ p_doc_in' = doc
          /\ p_doc' = doc
          /\ p_page' = page
    /\ p_pc' = "ensure_acro_form"
    /\ UNCHANGED <<p_acro, p_widget, p_err>>

\* pdf.rs:349
EnsureAcroForm ==
    /\ p_pc = "ensure_acro_form"
    /\ LET r == ensure_acro_form(p_doc)
       IN  IF r.ok
           THEN /\ p_doc' = r.val.doc
                /\ p_acro' = r.val.id
                /\ p_pc' = "create_widget"
                /\ UNCHANGED p_err
           ELSE PrepFails(r.val) /\ UNCHANGED <<p_doc, p_acro>>
    /\ UNCHANGED <<p_doc_in, p_page, p_widget>>

\* pdf.rs:352-356: the signature dictionary and the widget are added
CreateSignatureWidget ==
    /\ p_pc = "create_widget"
    /\ p_doc' = add_object(add_object(p_doc))
    /\ p_widget' = p_doc.max_id + 2
    /\ p_pc' = "add_field"
    /\ UNCHANGED <<p_doc_in, p_page, p_acro, p_err>>

\* pdf.rs:359
AddFieldToAcroForm ==
    /\ p_pc = "add_field"
    /\ p_doc' = add_field_to_acro_form(p_doc, p_widget)
    /\ p_pc' = "add_annotation"
    /\ UNCHANGED <<p_doc_in, p_page, p_acro, p_widget, p_err>>

\* pdf.rs:362
AddAnnotationToPage ==
    /\ p_pc = "add_annotation"
    /\ LET r == add_annotation_to_page_dict(p_doc, p_page, p_widget)
       IN  IF r.ok
           THEN p_doc' = r.val /\ p_pc' = "save" /\ UNCHANGED p_err
           ELSE PrepFails(r.val) /\ UNCHANGED p_doc
    /\ UNCHANGED <<p_doc_in, p_page, p_acro, p_widget>>

\* pdf.rs:365-372: save_to and calculate_byte_range
SaveDocument ==
    /\ p_pc = "save"
    /\ \E r \in {"ok", "Pdf:Failed to save PDF", "Pdf:Could not find signature placeholder"} :
          IF r = "ok" THEN p_pc' = "done" /\ UNCHANGED p_err
          ELSE PrepFails(r)
    /\ UNCHANGED <<p_doc_in, p_doc, p_page, p_acro, p_widget>>

PrepNext ==
    /\ \/ PrepareCall
       \/ EnsureAcroForm
       \/ CreateSignatureWidget
       \/ AddFieldToAcroForm
       \/ AddAnnotationToPage
       \/ SaveDocument
    /\ UNCHANGED <<pdf_vars, tok_vars, app_vars, unit_vars>>

(***************************************************************************)
(* Properties of the document preparation                                  *)
(***************************************************************************)
Range(seq) == {seq[i] : i \in 1..Len(seq)}

Occurrences(seq, x) == Cardinality({i \in 1..Len(seq) : seq[i] = x})

PastAnnotation == p_pc \in {"save", "done"} \/ (p_pc = "error" /\ p_doc_in.has_catalog)

\* C17: page k with 1 <= k <= page_count puts the widget on the k-th page and
\* on no other; page 0 and a page beyond the last make the preparation fail
\* with InvalidSignaturePage.
C17_PageIndexing ==
    /\ p_pc \in {"save", "done"}
          => /\ p_page \in 1..Len(p_doc.pages)
             /\ \A k \in 1..Len(p_doc.pages) :
                   (p_widget \in Range(p_doc.pages[k].annots)) = (k = p_page)
    /\ (PastAnnotation /\ p_page \notin 1..Len(p_doc_in.pages))
          => (p_pc = "error" /\ p_err = "Signing:InvalidSignaturePage")

TargetPage == (add_annotation_to_page(Len(p_doc_in.pages), p_page)).val

\* C20: after a successful preparation, whatever the shape of the input,
\* AcroForm.Fields refers to the new widget, the Annots of the target page
\* refers to it exactly once, and every field and every annotation of the
\* input is still there.
C20_WidgetAttachedNothingLost ==
    p_pc = "done"
        => /\ p_widget \in Range(p_doc.acro.fields)
           /\ Occurrences(p_doc.pages[TargetPage].annots, p_widget) = 1
           /\ Range(p_doc_in.acro.fields) \subseteq Range(p_doc.acro.fields)
           /\ \A k \in 1..Len(p_doc_in.pages) :
                 Range(p_doc_in.pages[k].annots) \subseteq Range(p_doc.pages[k].annots)

(***************************************************************************)
(* TokenManager (pkcs11/manager.rs)                                        *)
(*                                                                         *)
(* The manager is shared by reference; every method takes &self.  Each     *)
(* field has its own Mutex.  A method is a sequence of steps; a step that  *)
(* locks a field mutex, reads or assigns the field and drops the guard in  *)
(* the same statement block is one atomic step, enabled when the mutex is  *)
(* free.  sign keeps the session guard and the key guard until it returns. *)
(***************************************************************************)
Threads == {1, 2}

Mutexes == {"session", "signing_key", "certificate_der", "certificate_chain"}

MAX_CHAIN_LENGTH == 10

\* Certificates a token may carry: an end-entity issued by CA 1, the
\* self-signed CA 1, and an end-entity of an issuer that is not on the token
CertEE == MakeCert(7, 1, 2, CertRestSmall)

CertCA == MakeCert(1, 1, 1, CertRestSmall)

CertOther == MakeCert(9, 4, 3, CertRestSmall)

\* Certificate objects in enumeration order, as find_objects returns them
TokenCertificates == { <<CertEE, CertCA>>, <<CertOther>> }

\* Private-key handles with CKA_SIGN
TokenKeys == {11}

RECURSIVE chain_extend(_, _, _)
\* variant: a candidate is taken when its issuer, not its subject, equals the
\* issuer of the current certificate
chain_extend_matches_issuer(chain, all_certs, hops) ==
    IF hops = 0 THEN chain
    ELSE LET current_cert == chain[Len(chain)]
             cert == x509_from_der(current_cert)
             candidates ==
                 {i \in 1..Len(all_certs) :
                     /\ all_certs[i] # current_cert
                     /\ x509_from_der(all_certs[i]).ok
                     /\ x509_from_der(all_certs[i]).issuer = cert.issuer}
         IN  IF ~cert.ok THEN chain
             ELSE IF cert.issuer = cert.subject THEN chain
             ELSE IF candidates = {} THEN chain
             ELSE chain_extend(Append(chain, all_certs[Min(candidates)]),
                               all_certs, hops - 1)

\* The for loop of build_certificate_chain (manager.rs:328-367): hops is the
\* number of iterations left
chain_extend(chain, all_certs, hops) ==
    IF hops = 0 THEN chain
    ELSE LET current_cert == chain[Len(chain)]
             cert == x509_from_der(current_cert)
             candidates ==
                 {i \in 1..Len(all_certs) :
                     /\ all_certs[i] # current_cert
                     /\ x509_from_der(all_certs[i]).ok
                     /\ x509_from_der(all_certs[i]).subject = cert.issuer}
         IN  IF ~cert.ok THEN chain
             ELSE IF cert.issuer = cert.subject THEN chain
             ELSE IF candidates = {} THEN chain
             ELSE chain_extend(Append(chain, all_certs[Min(candidates)]),
                               all_certs, hops - 1)

build_certificate_chain(end_entity, all_certs) ==
    chain_extend(<<end_entity>>, all_certs, MAX_CHAIN_LENGTH)

\* Session handle the token hands out: the smallest one not in use
new_session_handle == Min({h \in 1..(Cardinality(open_sessions) + 1) : h \notin open_sessions})

\* PINs a caller may pass (ASCII)
Pins == { <<49, 50, 51, 52>>, <<57, 56, 55, 54, 53>> }

\* Zeroize: every byte of the buffer is overwritten with 0
zeroize(buf) == [i \in 1..Len(buf) |-> 0]

\* pin is the argument; pin_copy and auth_pin are the memory of the String
\* and of the AuthPin that login creates (<<>> while not created)
NoLocals == [session |-> 0, key |-> 0, cert |-> <<>>, chain |-> <<>>,
             pin |-> <<>>, pin_copy |-> <<>>, auth_pin |-> <<>>,
             invoked |-> FALSE,
             before |-> [session |-> 0, key |-> 0, cert |-> <<>>, chain |-> <<>>]]

NoReturn == [op |-> "none", kind |-> "none", code |-> "", message |-> "", value |-> <<>>]

Fields == [session |-> session, key |-> signing_key,
           cert |-> certificate_der, chain |-> certificate_chain]

ReturnOk(op, v) ==
    [op |-> op, kind |-> "ok", code |-> "", message |-> "", value |-> v]

\* a bool that is returned
ReturnBool(op, b) ==
    [op |-> op, kind |-> IF b THEN "true" ELSE "false", code |-> "", message |-> "",
     value |-> <<>>]

ReturnErr(op, code, message) ==
    [op |-> op, kind |-> "err", code |-> code, message |-> message, value |-> <<>>]

TokInit ==
    /\ session = 0
    /\ signing_key = 0
    /\ certificate_der = <<>>
    /\ certificate_chain = <<>>
    /\ mu = [m \in Mutexes |-> 0]
    /\ open_sessions = {}
    /\ stored_once = FALSE
    /\ t_pc = [t \in Threads |-> "idle"]
    /\ t_loc = [t \in Threads |-> NoLocals]
    /\ t_ret = [t \in Threads |-> NoReturn]

\* A method is entered
Call(t, entry) ==
    /\ t_pc[t] = "idle"
    /\ t_pc' = [t_pc EXCEPT ![t] = entry]
    /\ UNCHANGED <<session, signing_key, certificate_der, certificate_chain, mu,
                   open_sessions, stored_once, t_loc, t_ret>>

\* The caller consumes the returned value
Return(t) ==
    /\ t_pc[t] = "returned"
    /\ t_pc' = [t_pc EXCEPT ![t] = "idle"]
    /\ t_loc' = [t_loc EXCEPT ![t] = NoLocals]
    /\ t_ret' = [t_ret EXCEPT ![t] = NoReturn]
    /\ UNCHANGED <<session, signing_key, certificate_der, certificate_chain, mu,
                   open_sessions, stored_once>>

\* variant: the AuthPin is released without being wiped
LoginFails_keeps_pin(t, code, message) ==
    /\ t_pc' = [t_pc EXCEPT ![t] = "returned"]
    /\ t_ret' = [t_ret EXCEPT ![t] = ReturnErr("login", code, message)]
    /\ open_sessions' = open_sessions \ {t_loc[t].session}
    /\ t_loc' = [t_loc EXCEPT ![t].session = 0]

\* `?` inside login: the locals are dropped.  Dropping the Session (if
\* opened) closes it; dropping the AuthPin (if created) wipes it.
LoginFails(t, code, message) ==
    /\ t_pc' = [t_pc EXCEPT ![t] = "returned"]
    /\ t_ret' = [t_ret EXCEPT ![t] = ReturnErr("login", code, message)]
    /\ open_sessions' = open_sessions \ {t_loc[t].session}
    /\ t_loc' = [t_loc EXCEPT ![t].session = 0, ![t].auth_pin = zeroize(@)]

\* login is entered; `before` remembers the four fields as they are at the call
LoginCall(t) ==
    /\ t_pc[t] = "idle"
    /\ t_pc' = [t_pc EXCEPT ![t] = "login_slot"]
    /\ \E pin \in Pins : t_loc' = [t_loc EXCEPT ![t].before = Fields, ![t].pin = pin]
    /\ UNCHANGED <<session, signing_key, certificate_der, certificate_chain, mu,
                   open_sessions, stored_once, t_ret>>

\* manager.rs:153-167
LoginFindSlot(t) ==
    /\ t_pc[t] = "login_slot"
    /\ \E r \in {"slots_failed", "not_found", "ok"} :
          CASE r = "slots_failed" -> LoginFails(t, "TokenNotFound", "Failed to get slots")
            [] r = "not_found" -> LoginFails(t, "TokenNotFound", "Slot not found")
            [] r = "ok" -> /\ t_pc' = [t_pc EXCEPT ![t] = "login_open"]
                           /\ UNCHANGED <<t_ret, open_sessions, t_loc>>
    /\ UNCHANGED <<session, signing_key, certificate_der, certificate_chain, mu,
                   stored_once>>

\* manager.rs:170-173
LoginOpenSession(t) ==
    /\ t_pc[t] = "login_open"
    /\ \E ok \in BOOLEAN :
          IF ok
          THEN /\ open_sessions' = open_sessions \cup {new_session_handle}
               /\ t_loc' = [t_loc EXCEPT ![t].session = new_session_handle]
               /\ t_pc' = [t_pc EXCEPT ![t] = "login_pin"]
               /\ UNCHANGED t_ret
          ELSE LoginFails(t, "Pkcs11", "Failed to open session")
    /\ UNCHANGED <<session, signing_key, certificate_der, certificate_chain, mu,
                   stored_once>>

\* manager.rs:176-177: a mutable copy of the PIN, and a clone of it moved
\* into the AuthPin handed to the provider
LoginCopyPin(t) ==
    /\ t_pc[t] = "login_pin"
    /\ t_loc' = [t_loc EXCEPT ![t].pin_copy = t_loc[t].pin, ![t].auth_pin = t_loc[t].pin]
    /\ t_pc' = [t_pc EXCEPT ![t] = "login_auth"]
    /\ UNCHANGED <<session, signing_key, certificate_der, certificate_chain, mu,
                   open_sessions, stored_once, t_ret>>

\* variant: a rejected PIN also discards the session stored by an earlier login
LoginAuthenticate_takes_session(t) ==
    /\ t_pc[t] = "login_auth"
    /\ \E pin_ok \in BOOLEAN :
          IF pin_ok
          THEN /\ t_pc' = [t_pc EXCEPT ![t] = "login_key"]
               /\ UNCHANGED <<t_ret, open_sessions, t_loc, session>>
          ELSE /\ t_pc' = [t_pc EXCEPT ![t] = "returned"]
               /\ t_ret' = [t_ret EXCEPT ![t] =
                               ReturnErr("login", "SigningFailed", "PIN authentication failed")]
               /\ open_sessions' = open_sessions \ {t_loc[t].session, session}
               /\ t_loc' = [t_loc EXCEPT ![t].session = 0]
               /\ session' = 0
    /\ UNCHANGED <<signing_key, certificate_der, certificate_chain, mu,
                   stored_once>>

\* manager.rs:178-187: session.login with the AuthPin; pin_copy.zeroize();
\* only then the result is looked at
LoginAuthenticate(t) ==
    /\ t_pc[t] = "login_auth"
    /\ \E pin_ok \in BOOLEAN :
          IF pin_ok
          THEN /\ t_pc' = [t_pc EXCEPT ![t] = "login_key"]
               /\ t_loc' = [t_loc EXCEPT ![t].pin_copy = zeroize(@)]
               /\ UNCHANGED <<t_ret, open_sessions>>
          ELSE /\ t_pc' = [t_pc EXCEPT ![t] = "returned"]
               /\ t_ret' = [t_ret EXCEPT ![t] =
                               ReturnErr("login", "SigningFailed", "PIN authentication failed")]
               /\ open_sessions' = open_sessions \ {t_loc[t].session}
               /\ t_loc' = [t_loc EXCEPT ![t].session = 0,
                                         ![t].pin_copy = zeroize(@),
                                         ![t].auth_pin = zeroize(@)]
    /\ UNCHANGED <<session, signing_key, certificate_der, certificate_chain, mu,
                   stored_once>>

\* find_signing_key (manager.rs:190, 239-259)
LoginFindKey(t) ==
    /\ t_pc[t] = "login_key"
    /\ \E r \in {"search_failed", "no_key", "ok"}, key_handle \in TokenKeys :
          CASE r = "search_failed" ->
                  LoginFails(t, "PrivateKeyNotFound", "Failed to search for private key")
            [] r = "no_key" ->
                  LoginFails(t, "PrivateKeyNotFound", "No signing private key found on token")
            [] r = "ok" ->
                  /\ t_loc' = [t_loc EXCEPT ![t].key = key_handle]
                  /\ t_pc' = [t_pc EXCEPT ![t] = "login_certs"]
                  /\ UNCHANGED <<t_ret, open_sessions>>
    /\ UNCHANGED <<session, signing_key, certificate_der, certificate_chain, mu,
                   stored_once>>

\* variant: the key handle is stored before the certificate search
LoginFindCertificates_key_stored_early(t) ==
    /\ t_pc[t] = "login_certs"
    /\ \E r \in {"no_objects", "ok"}, all_certs \in TokenCertificates :
          CASE r = "no_objects" ->
                  /\ LoginFails(t, "CertificateNotFound", "No certificates found on token")
                  /\ signing_key' = t_loc[t].key
            [] r = "ok" ->
                  /\ t_loc' = [t_loc EXCEPT
                                 ![t].cert = <<all_certs[1]>>,
                                 ![t].chain = build_certificate_chain(all_certs[1], all_certs)]
                  /\ t_pc' = [t_pc EXCEPT ![t] = "login_store_session"]
                  /\ UNCHANGED <<t_ret, open_sessions, signing_key>>
    /\ UNCHANGED <<session, certificate_der, certificate_chain, mu, stored_once>>

\* find_certificate_chain (manager.rs:193, 263-316)
LoginFindCertificates(t) ==
    /\ t_pc[t] = "login_certs"
    /\ \E r \in {"search_failed", "no_objects", "read_failed", "no_values", "ok"},
          all_certs \in TokenCertificates :
          CASE r = "search_failed" ->
                  LoginFails(t, "CertificateNotFound", "Failed to search for certificates")
            [] r = "no_objects" ->
                  LoginFails(t, "CertificateNotFound", "No certificates found on token")
            [] r = "read_failed" ->
                  LoginFails(t, "CertificateNotFound", "Failed to read certificate")
            [] r = "no_values" ->
                  LoginFails(t, "CertificateNotFound", "No certificate values found")
            [] r = "ok" ->
                  /\ t_loc' = [t_loc EXCEPT
                                 ![t].cert = <<all_certs[1]>>,
                                 ![t].chain = build_certificate_chain(all_certs[1], all_certs)]
                  /\ t_pc' = [t_pc EXCEPT ![t] = "login_store_session"]
                  /\ UNCHANGED <<t_ret, open_sessions>>
    /\ UNCHANGED <<session, signing_key, certificate_der, certificate_chain, mu,
                   stored_once>>

\* manager.rs:206-212; the Session that was stored before is dropped (closed)
LoginStoreSession(t) ==
    /\ t_pc[t] = "login_store_session"
    /\ mu["session"] = 0
    /\ session' = t_loc[t].session
    /\ open_sessions' = open_sessions \ {session}
    /\ stored_once' = TRUE
    /\ t_loc' = [t_loc EXCEPT ![t].session = 0]
    /\ t_pc' = [t_pc EXCEPT ![t] = "login_store_key"]
    /\ UNCHANGED <<signing_key, certificate_der, certificate_chain, mu, t_ret>>

\* manager.rs:213-219
LoginStoreKey(t) ==
    /\ t_pc[t] = "login_store_key"
    /\ mu["signing_key"] = 0
    /\ signing_key' = t_loc[t].key
    /\ t_pc' = [t_pc EXCEPT ![t] = "login_store_cert"]
    /\ UNCHANGED <<session, certificate_der, certificate_chain, mu, open_sessions,
                   stored_once, t_loc, t_ret>>

\* manager.rs:220-226
LoginStoreCertificate(t) ==
    /\ t_pc[t] = "login_store_cert"
    /\ mu["certificate_der"] = 0
    /\ certificate_der' = t_loc[t].cert
    /\ t_pc' = [t_pc EXCEPT ![t] = "login_store_chain"]
    /\ UNCHANGED <<session, signing_key, certificate_chain, mu, open_sessions,
                   stored_once, t_loc, t_ret>>

\* variant: only the issuers are stored as the chain
LoginStoreChain_issuers_only(t) ==
    /\ t_pc[t] = "login_store_chain"
    /\ mu["certificate_chain"] = 0
    /\ certificate_chain' = Tail(t_loc[t].chain)
    /\ t_pc' = [t_pc EXCEPT ![t] = "returned"]
    /\ t_ret' = [t_ret EXCEPT ![t] = ReturnOk("login", <<>>)]
    /\ t_loc' = [t_loc EXCEPT ![t].auth_pin = zeroize(@)]
    /\ UNCHANGED <<session, signing_key, certificate_der, mu, open_sessions,
                   stored_once>>

\* manager.rs:227-235
LoginStoreChain(t) ==
    /\ t_pc[t] = "login_store_chain"
    /\ mu["certificate_chain"] = 0
    /\ certificate_chain' = t_loc[t].chain
    /\ t_pc' = [t_pc EXCEPT ![t] = "returned"]
    /\ t_ret' = [t_ret EXCEPT ![t] = ReturnOk("login", <<>>)]
    /\ t_loc' = [t_loc EXCEPT ![t].auth_pin = zeroize(@)]
    /\ UNCHANGED <<session, signing_key, certificate_der, mu, open_sessions,
                   stored_once>>

LogoutCall(t) == Call(t, "logout_key")

\* variant: the key guard is not dropped before logout goes on
LogoutClearKey_keeps_guard(t) ==
    /\ t_pc[t] = "logout_key"
    /\ mu["signing_key"] = 0
    /\ signing_key' = 0
    /\ mu' = [mu EXCEPT !["signing_key"] = t]
    /\ t_pc' = [t_pc EXCEPT ![t] = "logout_cert"]
    /\ UNCHANGED <<session, certificate_der, certificate_chain, open_sessions,
                   stored_once, t_loc, t_ret>>

\* manager.rs:520-522
LogoutClearKey(t) ==
    /\ t_pc[t] = "logout_key"
    /\ mu["signing_key"] = 0
    /\ signing_key' = 0
    /\ t_pc' = [t_pc EXCEPT ![t] = "logout_cert"]
    /\ UNCHANGED <<session, certificate_der, certificate_chain, mu, open_sessions,
                   stored_once, t_loc, t_ret>>

\* manager.rs:523-525
LogoutClearCertificate(t) ==
    /\ t_pc[t] = "logout_cert"
    /\ mu["certificate_der"] = 0
    /\ certificate_der' = <<>>
    /\ t_pc' = [t_pc EXCEPT ![t] = "logout_chain"]
    /\ UNCHANGED <<session, signing_key, certificate_chain, mu, open_sessions,
                   stored_once, t_loc, t_ret>>

\* manager.rs:526-528
LogoutClearChain(t) ==
    /\ t_pc[t] = "logout_chain"
    /\ mu["certificate_chain"] = 0
    /\ certificate_chain' = <<>>
    /\ t_pc' = [t_pc EXCEPT ![t] = "logout_session"]
    /\ UNCHANGED <<session, signing_key, certificate_der, mu, open_sessions,
                   stored_once, t_loc, t_ret>>

\* variant: the session is left in place
LogoutTakeSession_keeps_session(t) ==
    /\ t_pc[t] = "logout_session"
    /\ mu["session"] = 0
    /\ t_pc' = [t_pc EXCEPT ![t] = "returned"]
    /\ t_ret' = [t_ret EXCEPT ![t] = ReturnOk("logout", <<>>)]
    /\ UNCHANGED <<session, signing_key, certificate_der, certificate_chain, mu,
                   open_sessions, stored_once, t_loc>>

\* manager.rs:529-533: take() the session, log it out, drop (close) it
LogoutTakeSession(t) ==
    /\ t_pc[t] = "logout_session"
    /\ mu["session"] = 0
    /\ session' = 0
    /\ open_sessions' = open_sessions \ {session}
    /\ t_loc' = [t_loc EXCEPT ![t].invoked = (session # 0)]
    /\ t_pc' = [t_pc EXCEPT ![t] = "returned"]
    /\ t_ret' = [t_ret EXCEPT ![t] = ReturnOk("logout", <<>>)]
    /\ UNCHANGED <<signing_key, certificate_der, certificate_chain, mu, stored_once>>

SignCall(t) == Call(t, "sign_session")

\* variant: the session is not checked before going on to the key
SignLockSession_unchecked(t) ==
    /\ t_pc[t] = "sign_session"
    /\ mu["session"] = 0
    /\ mu' = [mu EXCEPT !["session"] = t]
    /\ t_loc' = [t_loc EXCEPT ![t].session = session]
    /\ t_pc' = [t_pc EXCEPT ![t] = "sign_key"]
    /\ UNCHANGED <<session, signing_key, certificate_der, certificate_chain,
                   open_sessions, stored_once, t_ret>>

\* manager.rs:452-459: lock the session mutex, keep the guard
SignLockSession(t) ==
    /\ t_pc[t] = "sign_session"
    /\ mu["session"] = 0
    /\ IF session = 0
       THEN /\ t_pc' = [t_pc EXCEPT ![t] = "returned"]
            /\ t_ret' = [t_ret EXCEPT ![t] =
                            ReturnErr("sign", "TokenNotFound", "Not logged in")]
            /\ UNCHANGED <<mu, t_loc>>
       ELSE /\ mu' = [mu EXCEPT !["session"] = t]
            /\ t_loc' = [t_loc EXCEPT ![t].session = session]
            /\ t_pc' = [t_pc EXCEPT ![t] = "sign_key"]
            /\ UNCHANGED t_ret
    /\ UNCHANGED <<session, signing_key, certificate_der, certificate_chain,
                   open_sessions, stored_once>>

\* manager.rs:461-468: lock the key mutex while holding the session guard
SignLockKey(t) ==
    /\ t_pc[t] = "sign_key"
    /\ mu["signing_key"] = 0
    /\ IF signing_key = 0
       THEN /\ t_pc' = [t_pc EXCEPT ![t] = "returned"]
            /\ t_ret' = [t_ret EXCEPT ![t] =
                            ReturnErr("sign", "PrivateKeyNotFound", "No signing key available")]
            /\ mu' = [mu EXCEPT !["session"] = 0]
            /\ UNCHANGED t_loc
       ELSE /\ mu' = [mu EXCEPT !["signing_key"] = t]
            /\ t_loc' = [t_loc EXCEPT ![t].key = signing_key]
            /\ t_pc' = [t_pc EXCEPT ![t] = "sign_token"]
            /\ UNCHANGED t_ret
    /\ UNCHANGED <<session, signing_key, certificate_der, certificate_chain,
                   open_sessions, stored_once>>

\* manager.rs:471-480: C_Sign with CKM_SHA256_RSA_PKCS, then both guards drop
SignInvokeToken(t) ==
    /\ t_pc[t] = "sign_token"
    /\ \E ok \in BOOLEAN, sig \in Signatures :
          t_ret' = [t_ret EXCEPT ![t] =
                       IF ok THEN ReturnOk("sign", sig)
                       ELSE ReturnErr("sign", "SigningFailed", "Signing operation failed")]
    /\ t_loc' = [t_loc EXCEPT ![t].invoked = TRUE]
    /\ mu' = [mu EXCEPT !["session"] = 0, !["signing_key"] = 0]
    /\ t_pc' = [t_pc EXCEPT ![t] = "returned"]
    /\ UNCHANGED <<session, signing_key, certificate_der, certificate_chain,
                   open_sessions, stored_once>>

\* sign_digest (manager.rs:485-515) takes the two guards as sign does and
\* signs with CKM_RSA_PKCS
SignDigestCall(t) == Call(t, "digest_session")

\* manager.rs:486-493
SignDigestLockSession(t) ==
    /\ t_pc[t] = "digest_session"
    /\ mu["session"] = 0
    /\ IF session = 0
       THEN /\ t_pc' = [t_pc EXCEPT ![t] = "returned"]
            /\ t_ret' = [t_ret EXCEPT ![t] =
                            ReturnErr("sign_digest", "TokenNotFound", "Not logged in")]
            /\ UNCHANGED <<mu, t_loc>>
       ELSE /\ mu' = [mu EXCEPT !["session"] = t]
            /\ t_loc' = [t_loc EXCEPT ![t].session = session]
            /\ t_pc' = [t_pc EXCEPT ![t] = "digest_key"]
            /\ UNCHANGED t_ret
    /\ UNCHANGED <<session, signing_key, certificate_der, certificate_chain,
                   open_sessions, stored_once>>

\* manager.rs:495-502
SignDigestLockKey(t) ==
    /\ t_pc[t] = "digest_key"
    /\ mu["signing_key"] = 0
    /\ IF signing_key = 0
       THEN /\ t_pc' = [t_pc EXCEPT ![t] = "returned"]
            /\ t_ret' = [t_ret EXCEPT ![t] =
                            ReturnErr("sign_digest", "PrivateKeyNotFound",
                                      "No signing key available")]
            /\ mu' = [mu EXCEPT !["session"] = 0]
            /\ UNCHANGED t_loc
       ELSE /\ mu' = [mu EXCEPT !["signing_key"] = t]
            /\ t_loc' = [t_loc EXCEPT ![t].key = signing_key]
            /\ t_pc' = [t_pc EXCEPT ![t] = "digest_token"]
            /\ UNCHANGED t_ret
    /\ UNCHANGED <<session, signing_key, certificate_der, certificate_chain,
                   open_sessions, stored_once>>

\* manager.rs:504-514: C_Sign with CKM_RSA_PKCS, then both guards drop
SignDigestInvokeToken(t) ==
    /\ t_pc[t] = "digest_token"
    /\ \E ok \in BOOLEAN, sig \in Signatures :
          t_ret' = [t_ret EXCEPT ![t] =
                       IF ok THEN ReturnOk("sign_digest", sig)
                       ELSE ReturnErr("sign_digest", "SigningFailed", "Signing digest failed")]
    /\ t_loc' = [t_loc EXCEPT ![t].invoked = TRUE]
    /\ mu' = [mu EXCEPT !["session"] = 0, !["signing_key"] = 0]
    /\ t_pc' = [t_pc EXCEPT ![t] = "returned"]
    /\ UNCHANGED <<session, signing_key, certificate_der, certificate_chain,
                   open_sessions, stored_once>>

\* get_certificate_info (manager.rs:373-418): the certificate is cloned
\* under its guard, the guard is dropped, and the copy is parsed
GetCertificateInfo(t) ==
    /\ t_pc[t] = "idle"
    /\ mu["certificate_der"] = 0
    /\ t_pc' = [t_pc EXCEPT ![t] = "returned"]
    /\ UNCHANGED t_loc
    /\ t_ret' = [t_ret EXCEPT ![t] =
                    IF certificate_der = <<>>
                    THEN ReturnErr("get_certificate_info", "CertificateNotFound",
                                   "Not logged in or no certificate available")
                    ELSE IF ~x509_from_der(certificate_der[1]).ok
                    THEN ReturnErr("get_certificate_info", "CertificateNotFound",
                                   "Failed to parse certificate")
                    ELSE ReturnOk("get_certificate_info", certificate_der[1])]
    /\ UNCHANGED <<session, signing_key, certificate_der, certificate_chain, mu,
                   open_sessions, stored_once>>

\* is_logged_in (manager.rs:537-539)
IsLoggedIn(t) ==
    /\ t_pc[t] = "idle"
    /\ mu["session"] = 0
    /\ t_pc' = [t_pc EXCEPT ![t] = "returned"]
    /\ UNCHANGED t_loc
    /\ t_ret' = [t_ret EXCEPT ![t] =
                    ReturnBool("is_logged_in", session # 0)]
    /\ UNCHANGED <<session, signing_key, certificate_der, certificate_chain, mu,
                   open_sessions, stored_once>>

\* get_certificate_der (manager.rs:421-430)
GetCertificateDer(t) ==
    /\ t_pc[t] = "idle"
    /\ mu["certificate_der"] = 0
    /\ t_pc' = [t_pc EXCEPT ![t] = "returned"]
    /\ UNCHANGED t_loc
    /\ t_ret' = [t_ret EXCEPT ![t] =
                    IF certificate_der = <<>>
                    THEN ReturnErr("get_certificate_der", "CertificateNotFound",
                                   "Not logged in or no certificate available")
                    ELSE ReturnOk("get_certificate_der", certificate_der[1])]
    /\ UNCHANGED <<session, signing_key, certificate_der, certificate_chain, mu,
                   open_sessions, stored_once>>

\* get_certificate_chain (manager.rs:436-448)
GetCertificateChain(t) ==
    /\ t_pc[t] = "idle"
    /\ mu["certificate_chain"] = 0
    /\ t_pc' = [t_pc EXCEPT ![t] = "returned"]
    /\ UNCHANGED t_loc
    /\ t_ret' = [t_ret EXCEPT ![t] =
                    IF Len(certificate_chain) = 0
                    THEN ReturnErr("get_certificate_chain", "CertificateNotFound",
                                   "Not logged in or no certificate chain available")
                    ELSE ReturnOk("get_certificate_chain", certificate_chain)]
    /\ UNCHANGED <<session, signing_key, certificate_der, certificate_chain, mu,
                   open_sessions, stored_once>>

\* Drop for TokenManager (manager.rs:542-546): drop(&mut self) runs logout().
\* A value is dropped only when nothing borrows it, so no method is running.
DropManager ==
    /\ \A t \in Threads : t_pc[t] = "idle"
    /\ signing_key' = 0
    /\ certificate_der' = <<>>
    /\ certificate_chain' = <<>>
    /\ session' = 0
    /\ open_sessions' = open_sessions \ {session}
    /\ t_pc' = [t \in Threads |-> "dropped"]
    /\ UNCHANGED <<mu, stored_once, t_loc, t_ret>>

LoginStep(t) ==
    \/ LoginCall(t)
    \/ LoginFindSlot(t)
    \/ LoginOpenSession(t)
    \/ LoginCopyPin(t)
    \/ LoginAuthenticate(t)
    \/ LoginFindKey(t)
    \/ LoginFindCertificates(t)
    \/ LoginStoreSession(t)
    \/ LoginStoreKey(t)
    \/ LoginStoreCertificate(t)
    \/ LoginStoreChain(t)

OtherStep(t) ==
    \/ LogoutCall(t)
    \/ LogoutClearKey(t)
    \/ LogoutClearCertificate(t)
    \/ LogoutClearChain(t)
    \/ LogoutTakeSession(t)
    \/ SignCall(t)
    \/ SignLockSession(t)
    \/ SignLockKey(t)
    \/ SignInvokeToken(t)
    \/ SignDigestCall(t)
    \/ SignDigestLockSession(t)
    \/ SignDigestLockKey(t)
    \/ SignDigestInvokeToken(t)
    \/ IsLoggedIn(t)
    \/ GetCertificateInfo(t)
    \/ GetCertificateDer(t)
    \/ GetCertificateChain(t)
    \/ Return(t)

\* One caller at a time
TokNextSequential ==
    (LoginStep(1) \/ OtherStep(1) \/ DropManager)
        /\ UNCHANGED <<pdf_vars, app_vars, prep_vars, unit_vars>>

\* The manager shared between a control thread (1), which logs in and out,
\* and a worker thread (2), which calls every method but login
TokNextConcurrent ==
    (LoginStep(1) \/ (\E t \in Threads : OtherStep(t)) \/ DropManager)
        /\ UNCHANGED <<pdf_vars, app_vars, prep_vars, unit_vars>>

(***************************************************************************)
(* Properties of the token manager                                         *)
(***************************************************************************)
LoginFailed(t) ==
    /\ t_pc[t] = "returned"
    /\ t_ret[t].op = "login"
    /\ t_ret[t].kind = "err"

AllSet(f) == f.session # 0 /\ f.key # 0 /\ f.cert # <<>> /\ f.chain # <<>>

NoneSet(f) == f.session = 0 /\ f.key = 0 /\ f.cert = <<>> /\ f.chain = <<>>

\* C4: when login returns an error, whichever step failed, the stored
\* session, key handle, end-entity certificate and chain are exactly what
\* they were when login was called, logged in or not.
C4_FailedLoginLeavesStateUntouched ==
    \A t \in Threads : LoginFailed(t) => Fields = t_loc[t].before

\* a login has failed on a manager that was logged in
C4_Witness ==
    \E t \in Threads : LoginFailed(t) /\ AllSet(t_loc[t].before) /\ AllSet(Fields)

\* C5 as stated: after a failed login the manager is logged out whatever its
\* state was before the call.
C5_FailedLoginLogsOut ==
    \A t \in Threads : LoginFailed(t) => NoneSet(Fields)

\* C5: after a failed login is_logged_in() answers what it answered before
\* the call; in particular a manager that was logged out is still logged out
\* with nothing stored, and in no case is a partial subset of session, key
\* handle, certificate and chain stored.
C5_FailedLoginKeepsLoginState ==
    \A t \in Threads :
        LoginFailed(t) =>
            /\ (session # 0) = (t_loc[t].before.session # 0)
            /\ AllSet(Fields) \/ NoneSet(Fields)
            /\ t_loc[t].before.session = 0 => NoneSet(Fields)

\* a login has failed after the key search on a manager that was logged out
C5_Witness ==
    \E t \in Threads :
        /\ LoginFailed(t)
        /\ t_ret[t].code = "CertificateNotFound"
        /\ NoneSet(t_loc[t].before)
        /\ session = 0

\* C7: a thread that calls sign while another thread is inside login or
\* logout never finds the session present and the key absent: the four
\* fields are seen all set or all unset.
C7_NoMixedStateObserved ==
    \A t \in Threads :
        (t_pc[t] = "returned" /\ t_ret[t].op = "sign" /\ t_ret[t].kind = "err")
            => t_ret[t].code # "PrivateKeyNotFound"

SignReturns(t) == t_pc[t] # "returned" /\ t_pc'[t] = "returned" /\ t_ret'[t].op = "sign"

LogoutPcs == {"logout_key", "logout_cert", "logout_chain", "logout_session"}

\* C11: when logout returns, and when the manager has been dropped, session,
\* key handle, certificate and chain are all empty and the token session is
\* closed; while nothing is stored is_logged_in() is false and sign,
\* get_certificate_der and get_certificate_chain fail; a logout on a manager
\* with nothing stored changes nothing and issues no token logout.
C11_LogoutClearsEverything ==
    /\ [](\A t \in Threads :
            /\ (t_pc[t] = "returned" /\ t_ret[t].op = "logout")
                  => (NoneSet(Fields) /\ open_sessions = {})
            /\ t_pc[t] = "dropped" => (NoneSet(Fields) /\ open_sessions = {})
            /\ (t_pc[t] = "returned" /\ NoneSet(Fields))
                  => /\ t_ret[t].op = "is_logged_in" => t_ret[t].kind = "false"
                     /\ t_ret[t].op \in {"sign", "get_certificate_der",
                                          "get_certificate_chain"}
                           => t_ret[t].kind = "err")
    /\ [][\A t \in Threads :
            (t_pc[t] \in LogoutPcs /\ t_pc'[t] # t_pc[t] /\ NoneSet(Fields))
                => /\ Fields' = Fields
                   /\ open_sessions' = open_sessions
                   /\ ~t_loc'[t].invoked]_vars

\* a second logout has returned: nothing was stored and no token logout issued
C11_Witness ==
    \E t \in Threads :
        /\ t_pc[t] = "returned"
        /\ t_ret[t].op = "logout"
        /\ stored_once
        /\ ~t_loc[t].invoked
        /\ NoneSet(Fields)

\* C29: between the calls of one caller (login, logout, sign, the getters)
\* and after a drop, session, key handle, certificate and chain are all
\* stored or all empty; is_logged_in() answers true, get_certificate_der()
\* succeeds and get_certificate_chain() succeeds exactly when they are
\* stored, and the first element of the chain is the stored certificate.
C29_FieldsAllOrNone ==
    (\A t \in Threads : t_pc[t] \in {"idle", "returned", "dropped"})
        => /\ AllSet(Fields) \/ NoneSet(Fields)
           /\ AllSet(Fields) => certificate_chain[1] = certificate_der[1]
           /\ \A t \in Threads :
                 t_pc[t] = "returned" =>
                    /\ t_ret[t].op = "is_logged_in"
                          => (t_ret[t].kind = "true") = AllSet(Fields)
                    /\ t_ret[t].op = "get_certificate_der"
                          => /\ (t_ret[t].kind = "ok") = AllSet(Fields)
                             /\ t_ret[t].kind = "ok"
                                   => t_ret[t].value = certificate_chain[1]
                    /\ t_ret[t].op = "get_certificate_chain"
                          => /\ (t_ret[t].kind = "ok") = AllSet(Fields)
                             /\ t_ret[t].kind = "ok"
                                   => t_ret[t].value[1] = certificate_der[1]

\* get_certificate_chain has returned the end entity and its issuer
C29_Witness ==
    \E t \in Threads :
        /\ t_pc[t] = "returned"
        /\ t_ret[t].op = "get_certificate_chain"
        /\ t_ret[t].kind = "ok"
        /\ Len(t_ret[t].value) = 2
        /\ t_ret[t].value[1] = certificate_der[1]
        /\ session # 0
        /\ signing_key # 0

\* A call that is under way takes its next step
Progress(t) == t_pc[t] \notin {"idle", "returned"} /\ (LoginStep(t) \/ OtherStep(t))

C14_AtMostOneLiveSession == Cardinality(open_sessions) <= 1

Contains(buf, pin) == Len(pin) > 0 /\ find_bytes(buf, pin) # None

\* C16: when login has returned, with Ok or with any error, neither the
\* mutable copy of the PIN nor the copy handed to the provider holds the PIN
\* bytes any more; both, once created, are all zeros.
C16_PinWipedOnReturn ==
    \A t \in Threads :
        (t_pc[t] = "returned" /\ t_ret[t].op = "login")
            => /\ ~Contains(t_loc[t].pin_copy, t_loc[t].pin)
               /\ ~Contains(t_loc[t].auth_pin, t_loc[t].pin)
               /\ t_loc[t].pin_copy = zeroize(t_loc[t].pin_copy)
               /\ t_loc[t].auth_pin = zeroize(t_loc[t].auth_pin)

\* a login that got past the PIN check has failed, its two buffers wiped
C16_Witness ==
    \E t \in Threads :
        /\ LoginFailed(t)
        /\ t_ret[t].code = "CertificateNotFound"
        /\ Len(t_loc[t].pin) > 0
        /\ t_loc[t].pin_copy = zeroize(t_loc[t].pin)
        /\ t_loc[t].auth_pin = zeroize(t_loc[t].pin)

(***************************************************************************)
(* Command layer (lib.rs): the commands and TokenManager::new.              *)
(*                                                                         *)
(* AppState.token_manager is a Mutex<Option<TokenManager>>.  A block that  *)
(* locks it, works on the Option and releases the guard is one step.  The  *)
(* provider library is outside the repository: loading and initializing a  *)
(* context may succeed or fail.  A context lives from Pkcs11::new until    *)
(* the TokenManager (or the half-built value) that owns it is dropped.     *)
(* A command other than init_token_manager holds the guard from its lock   *)
(* to its return and is one step.  A panic while the guard is held poisons *)
(* the mutex: every later lock() fails.                                    *)
(***************************************************************************)
\* Library paths as (directory prefix, extension) after canonicalization
LibraryPaths ==
    { [prefix |-> "/usr/lib/", name |-> "vnpt-ca/libcryptoki", ext |-> ".so"],
      [prefix |-> "/usr/lib/", name |-> "viettel-ca/libpkcs11", ext |-> ".so"],
      [prefix |-> "/tmp/", name |-> "libpkcs11", ext |-> ".so"] }

NoPath == [prefix |-> "", name |-> "", ext |-> ""]

\* helpers.rs:63-110 (linux build)
validate_library_path(path) ==
    /\ path.prefix \in {"/usr/lib/", "/usr/local/lib/", "/opt/"}
    /\ path.ext = ".so"

\* Identifier of the next context: the smallest one not alive
new_context_id == Min({i \in 1..(Cardinality(contexts) + 1) :
                          \A c \in contexts : c.id # i})

Context(id) == CHOOSE c \in contexts : c.id = id

\* TokenManager::library_path of the stored manager
library_path(id) == (Context(id)).path

\* Outcome of a command: its result, and how far a signing command came
NoCommand == [name |-> "", result |-> "", read_input |-> FALSE,
              token_sign |-> FALSE, wrote |-> FALSE]

CommandResult(name, result) == [NoCommand EXCEPT !.name = name, !.result = result]

AppInit ==
    /\ token_manager = 0
    /\ contexts = {}
    /\ a_pc = [t \in Threads |-> "idle"]
    /\ a_path = [t \in Threads |-> NoPath]
    /\ a_ctx = [t \in Threads |-> 0]
    /\ a_ret = [t \in Threads |-> ""]
    /\ app_mu = 0
    /\ a_old = [t \in Threads |-> 0]
    /\ session_ctx = 0
    /\ poisoned = FALSE
    /\ a_cmd = [t \in Threads |-> NoCommand]
    /\ login_live = FALSE

\* The fields of the manager held in AppState are the TokenManager variables;
\* the command layer never runs a method of the manager without the guard.
ManagerUntouched ==
    UNCHANGED <<session, signing_key, certificate_der, certificate_chain,
                open_sessions, stored_once, session_ctx, login_live>>

TokenThreadsUntouched == UNCHANGED <<mu, t_pc, t_loc, t_ret>>

InitReturns(t, r) ==
    /\ a_pc' = [a_pc EXCEPT ![t] = "returned"]
    /\ a_ret' = [a_ret EXCEPT ![t] = r]

\* Dropping a context finalizes the provider library.  When another context
\* was created against the same path the outcome is not defined: that
\* context may stay initialized or find its library finalized.
AfterContextDrop(id) ==
    LET rest == contexts \ {Context(id)}
        shared == {c \in rest : c.path = (Context(id)).path}
    IN  {rest} \cup
        {(rest \ shared) \cup {[c EXCEPT !.initialized = FALSE] : c \in shared}}

\* the command is invoked with a library path
InitTokenManagerCall(t) ==
    /\ a_pc[t] = "idle"
    /\ \E path \in LibraryPaths : a_path' = [a_path EXCEPT ![t] = path]
    /\ a_pc' = [a_pc EXCEPT ![t] = "take_old"]
    /\ UNCHANGED <<token_manager, contexts, a_ctx, a_ret, app_mu, a_old>>
    /\ ManagerUntouched
    /\ UNCHANGED <<poisoned, a_cmd>>

\* lib.rs:51-66: lock (an error when the mutex is poisoned); take the old
\* manager; same path: put it back and return; other path: go on to drop it,
\* the guard still held
InitTakeOld(t) ==
    /\ a_pc[t] = "take_old"
    /\ app_mu = 0
    /\ IF poisoned
       THEN /\ InitReturns(t, "err")
            /\ UNCHANGED <<token_manager, a_old, app_mu>>
       ELSE IF token_manager # 0
       THEN IF library_path(token_manager) = a_path[t]
            THEN /\ InitReturns(t, "ok")
                 /\ UNCHANGED <<token_manager, a_old, app_mu>>
            ELSE /\ token_manager' = 0
                 /\ a_old' = [a_old EXCEPT ![t] = token_manager]
                 /\ app_mu' = t
                 /\ a_pc' = [a_pc EXCEPT ![t] = "drop_logout"]
                 /\ UNCHANGED a_ret
       ELSE /\ a_pc' = [a_pc EXCEPT ![t] = "sleep"]
            /\ UNCHANGED <<token_manager, a_old, app_mu, a_ret>>
    /\ UNCHANGED <<a_path, a_ctx, contexts>>
    /\ ManagerUntouched
    /\ UNCHANGED <<poisoned, a_cmd>>

\* What logout() does to the manager held by the command layer
ManagerLogout ==
    /\ signing_key' = 0
    /\ certificate_der' = <<>>
    /\ certificate_chain' = <<>>
    /\ session' = 0
    /\ open_sessions' = open_sessions \ {session}
    /\ session_ctx' = 0
    /\ login_live' = FALSE
    /\ UNCHANGED stored_once

\* variant: the context goes first, the session is logged out afterwards
DropLogout_context_first(t) ==
    /\ a_pc[t] \in {"drop_logout", "store_drop_logout"}
    /\ contexts' = contexts \ {Context(a_old[t])}
    /\ a_pc' = [a_pc EXCEPT ![t] = IF a_pc[t] = "drop_logout"
                                    THEN "drop_context" ELSE "store_drop_context"]
    /\ UNCHANGED <<token_manager, a_path, a_ctx, a_ret, app_mu, a_old>>
    /\ ManagerUntouched
    /\ UNCHANGED <<poisoned, a_cmd>>

\* Drop for TokenManager, first half (manager.rs:542-546): logout()
DropLogout(t) ==
    /\ a_pc[t] \in {"drop_logout", "store_drop_logout"}
    /\ ManagerLogout
    /\ a_pc' = [a_pc EXCEPT ![t] = IF a_pc[t] = "drop_logout"
                                    THEN "drop_context" ELSE "store_drop_context"]
    /\ UNCHANGED <<token_manager, contexts, a_path, a_ctx, a_ret, app_mu, a_old,
                   poisoned, a_cmd>>

\* Drop for TokenManager, second half: the fields are dropped, ctx among
\* them; lib.rs:64-66 then releases the guard
DropContext(t) ==
    /\ a_pc[t] = "drop_context"
    /\ contexts' \in AfterContextDrop(a_old[t])
    /\ app_mu' = 0
    /\ a_pc' = [a_pc EXCEPT ![t] = "sleep"]
    /\ UNCHANGED <<token_manager, a_path, a_ctx, a_ret, a_old>>
    /\ ManagerUntouched
    /\ UNCHANGED <<poisoned, a_cmd>>

\* lib.rs:70: sleep 200 ms, the guard not held
InitSleep(t) ==
    /\ a_pc[t] = "sleep"
    /\ a_pc' = [a_pc EXCEPT ![t] = "new_validate"]
    /\ UNCHANGED <<token_manager, contexts, a_path, a_ctx, a_ret, app_mu, a_old>>
    /\ ManagerUntouched
    /\ UNCHANGED <<poisoned, a_cmd>>

\* manager.rs:40
NewValidate(t) ==
    /\ a_pc[t] = "new_validate"
    /\ IF validate_library_path(a_path[t])
       THEN a_pc' = [a_pc EXCEPT ![t] = "new_load"] /\ UNCHANGED a_ret
       ELSE InitReturns(t, "err")
    /\ UNCHANGED <<token_manager, contexts, a_path, a_ctx, app_mu, a_old>>
    /\ ManagerUntouched
    /\ UNCHANGED <<poisoned, a_cmd>>

\* variant: a failed load puts the manager that was taken out back
NewLoad_puts_old_back(t) ==
    /\ a_pc[t] = "new_load"
    /\ \E ok \in BOOLEAN :
          IF ok
          THEN /\ contexts' = contexts \cup
                      {[id |-> new_context_id, path |-> a_path[t], initialized |-> FALSE]}
               /\ a_ctx' = [a_ctx EXCEPT ![t] = new_context_id]
               /\ a_pc' = [a_pc EXCEPT ![t] = "new_initialize"]
               /\ UNCHANGED <<a_ret, token_manager>>
          ELSE /\ InitReturns(t, "err")
               /\ token_manager' = a_old[t]
               /\ UNCHANGED <<contexts, a_ctx>>
    /\ UNCHANGED <<a_path, app_mu, a_old>>
    /\ ManagerUntouched
    /\ UNCHANGED <<poisoned, a_cmd>>

\* manager.rs:43-55: Pkcs11::new
NewLoad(t) ==
    /\ a_pc[t] = "new_load"
    /\ \E ok \in BOOLEAN :
          IF ok
          THEN /\ contexts' = contexts \cup
                      {[id |-> new_context_id, path |-> a_path[t], initialized |-> FALSE]}
               /\ a_ctx' = [a_ctx EXCEPT ![t] = new_context_id]
               /\ a_pc' = [a_pc EXCEPT ![t] = "new_initialize"]
               /\ UNCHANGED a_ret
          ELSE /\ InitReturns(t, "err")
               /\ UNCHANGED <<contexts, a_ctx>>
    /\ UNCHANGED <<token_manager, a_path, app_mu, a_old>>
    /\ ManagerUntouched
    /\ UNCHANGED <<poisoned, a_cmd>>

\* manager.rs:58-59: ctx.initialize; on failure the loaded context is dropped
NewInitialize(t) ==
    /\ a_pc[t] = "new_initialize"
    /\ \E ok \in BOOLEAN :
          IF ok
          THEN /\ contexts' = (contexts \ {Context(a_ctx[t])}) \cup
                      {[Context(a_ctx[t]) EXCEPT !.initialized = TRUE]}
               /\ a_pc' = [a_pc EXCEPT ![t] = "store"]
               /\ UNCHANGED <<a_ctx, a_ret>>
          ELSE /\ contexts' \in AfterContextDrop(a_ctx[t])
               /\ a_ctx' = [a_ctx EXCEPT ![t] = 0]
               /\ InitReturns(t, "err")
    /\ UNCHANGED <<token_manager, a_path, app_mu, a_old>>
    /\ ManagerUntouched
    /\ UNCHANGED <<poisoned, a_cmd>>

\* lib.rs:75-79: lock; *guard = Some(manager).  With a poisoned mutex the
\* call returns the error and the new manager is dropped; with nothing
\* stored the new manager is written; otherwise the stored one is dropped
\* first
InitStore(t) ==
    /\ a_pc[t] = "store"
    /\ app_mu = 0
    /\ IF poisoned
       THEN /\ contexts' \in AfterContextDrop(a_ctx[t])
            /\ a_ctx' = [a_ctx EXCEPT ![t] = 0]
            /\ InitReturns(t, "err")
            /\ UNCHANGED <<token_manager, app_mu, a_old>>
       ELSE IF token_manager = 0
       THEN /\ token_manager' = a_ctx[t]
            /\ InitReturns(t, "ok")
            /\ UNCHANGED <<app_mu, a_old, contexts, a_ctx>>
       ELSE /\ a_old' = [a_old EXCEPT ![t] = token_manager]
            /\ app_mu' = t
            /\ a_pc' = [a_pc EXCEPT ![t] = "store_drop_logout"]
            /\ UNCHANGED <<token_manager, a_ret, contexts, a_ctx>>
    /\ UNCHANGED a_path
    /\ ManagerUntouched
    /\ UNCHANGED <<poisoned, a_cmd>>

\* lib.rs:79-82: the old value is gone, the new manager is in place, Ok(())
InitStoreAssign(t) ==
    /\ a_pc[t] = "store_drop_context"
    /\ contexts' \in AfterContextDrop(a_old[t])
    /\ token_manager' = a_ctx[t]
    /\ app_mu' = 0
    /\ InitReturns(t, "ok")
    /\ UNCHANGED <<a_path, a_ctx, a_old>>
    /\ ManagerUntouched
    /\ UNCHANGED <<poisoned, a_cmd>>

\* the caller consumes the result
InitTokenManagerReturn(t) ==
    /\ a_pc[t] = "returned"
    /\ a_pc' = [a_pc EXCEPT ![t] = "idle"]
    /\ a_path' = [a_path EXCEPT ![t] = NoPath]
    /\ a_ctx' = [a_ctx EXCEPT ![t] = 0]
    /\ a_ret' = [a_ret EXCEPT ![t] = ""]
    /\ a_old' = [a_old EXCEPT ![t] = 0]
    /\ UNCHANGED <<token_manager, contexts, app_mu>>
    /\ ManagerUntouched
    /\ UNCHANGED <<poisoned, a_cmd>>

CommandReturns(t, r) ==
    /\ a_pc' = [a_pc EXCEPT ![t] = "cmd_returned"]
    /\ a_cmd' = [a_cmd EXCEPT ![t] = r]

\* What a command returns before it works on the manager: its arguments are
\* rejected, lock() fails on the poisoned mutex, or the Option is None
\* ("" when it goes on)
Rejected(valid) ==
    IF ~valid THEN "invalid input"
    ELSE IF poisoned THEN "mutex poisoned"
    ELSE IF token_manager = 0 THEN "not initialized"
    ELSE ""

\* list_tokens (lib.rs:86-97): manager.list_slots under the guard
ListTokens(t) ==
    /\ a_pc[t] = "idle"
    /\ app_mu = 0
    /\ \E ok \in BOOLEAN :
          CommandReturns(t, CommandResult("list_tokens",
              IF Rejected(TRUE) # "" THEN Rejected(TRUE)
              ELSE IF ok THEN "ok" ELSE "failed"))
    /\ UNCHANGED <<token_manager, contexts, a_path, a_ctx, a_ret, app_mu, a_old,
                   poisoned>>
    /\ ManagerUntouched

\* login_token (lib.rs:101-119): the PIN is validated, then manager.login
\* runs under the guard.  A failed login leaves the fields as they were, a
\* successful one replaces all four.
LoginToken(t) ==
    /\ a_pc[t] = "idle"
    /\ app_mu = 0
    /\ \E valid \in BOOLEAN, ok \in BOOLEAN :
          IF Rejected(valid) # ""
          THEN /\ CommandReturns(t, CommandResult("login_token", Rejected(valid)))
               /\ ManagerUntouched
          ELSE IF ok
          THEN /\ session' = new_session_handle
               /\ open_sessions' = (open_sessions \ {session}) \cup {new_session_handle}
               /\ signing_key' \in TokenKeys
               /\ certificate_der' = <<CertEE>>
               /\ certificate_chain' = build_certificate_chain(CertEE, <<CertEE, CertCA>>)
               /\ stored_once' = TRUE
               /\ session_ctx' = token_manager
               /\ login_live' = TRUE
               /\ CommandReturns(t, CommandResult("login_token", "ok"))
          ELSE /\ CommandReturns(t, CommandResult("login_token", "failed"))
               /\ ManagerUntouched
    /\ UNCHANGED <<token_manager, contexts, a_path, a_ctx, a_ret, app_mu, a_old,
                   poisoned>>

\* get_certificate (lib.rs:122-131): manager.get_certificate_info
GetCertificate(t) ==
    /\ a_pc[t] = "idle"
    /\ app_mu = 0
    /\ CommandReturns(t, CommandResult("get_certificate",
          IF Rejected(TRUE) # "" THEN Rejected(TRUE)
          ELSE IF certificate_der = <<>> THEN "failed" ELSE "ok"))
    /\ UNCHANGED <<token_manager, contexts, a_path, a_ctx, a_ret, app_mu, a_old,
                   poisoned>>
    /\ ManagerUntouched

\* logout_token (lib.rs:135-144)
LogoutToken(t) ==
    /\ a_pc[t] = "idle"
    /\ app_mu = 0
    /\ IF poisoned
       THEN /\ CommandReturns(t, CommandResult("logout_token", "mutex poisoned"))
            /\ ManagerUntouched
       ELSE /\ CommandReturns(t, CommandResult("logout_token", "ok"))
            /\ IF token_manager # 0 THEN ManagerLogout ELSE ManagerUntouched
    /\ UNCHANGED <<token_manager, contexts, a_path, a_ctx, a_ret, app_mu, a_old,
                   poisoned>>

\* sign_data (lib.rs:183-206): lock, manager, base64 decoding, then
\* manager.sign (manager.rs:450-481), which reaches the token only with a
\* session and a key stored
SignData(t) ==
    /\ a_pc[t] = "idle"
    /\ app_mu = 0
    /\ \E valid \in BOOLEAN, ok \in BOOLEAN :
          CommandReturns(t,
              IF Rejected(TRUE) # "" THEN CommandResult("sign_data", Rejected(TRUE))
              ELSE IF ~valid THEN CommandResult("sign_data", "invalid input")
              ELSE IF session = 0 THEN CommandResult("sign_data", "not logged in")
              ELSE IF signing_key = 0 THEN CommandResult("sign_data", "failed")
              ELSE [CommandResult("sign_data", IF ok THEN "ok" ELSE "failed")
                        EXCEPT !.token_sign = TRUE])
    /\ UNCHANGED <<token_manager, contexts, a_path, a_ctx, a_ret, app_mu, a_old,
                   poisoned>>
    /\ ManagerUntouched

\* How far PdfSigningEngine::sign_pdf comes (pdf.rs:229-253): it fails on the
\* paths, fails after reading the input, fails once the token has signed,
\* panics in embed_signature, or writes the output
SignPdfStages == {"paths", "read", "token", "panic", "written"}

PdfOutcome(stage) ==
    [name |-> "sign_pdf",
     result |-> IF stage = "written" THEN "ok"
                ELSE IF stage = "panic" THEN "panicked" ELSE "failed",
     read_input |-> stage # "paths",
     token_sign |-> stage \in {"token", "panic", "written"},
     wrote |-> stage = "written"]

\* variant: the command does not ask is_logged_in before it starts the engine
SignPdf_unchecked(t) ==
    /\ a_pc[t] = "idle"
    /\ app_mu = 0
    /\ \E valid \in BOOLEAN, stage \in SignPdfStages :
          IF Rejected(valid) # ""
          THEN /\ CommandReturns(t, CommandResult("sign_pdf", Rejected(valid)))
               /\ UNCHANGED poisoned
          ELSE IF (session = 0 \/ signing_key = 0)
                    /\ stage \in {"token", "panic", "written"}
          THEN /\ CommandReturns(t, [CommandResult("sign_pdf", "not logged in")
                                        EXCEPT !.read_input = TRUE])
               /\ UNCHANGED poisoned
          ELSE IF stage = "panic"
          THEN \/ /\ a_pc' = [a_pc EXCEPT ![t] = "panicked"]
                  /\ a_cmd' = [a_cmd EXCEPT ![t] = PdfOutcome(stage)]
                  /\ poisoned' = TRUE
               \/ /\ a_pc' = [u \in Threads |-> "aborted"]
                  /\ a_cmd' = [a_cmd EXCEPT ![t] = PdfOutcome(stage)]
                  /\ UNCHANGED poisoned
          ELSE /\ CommandReturns(t, PdfOutcome(stage))
               /\ UNCHANGED poisoned
    /\ UNCHANGED <<token_manager, contexts, a_path, a_ctx, a_ret, app_mu, a_old>>
    /\ ManagerUntouched

\* sign_pdf (lib.rs:208-290): the arguments are validated, then under the
\* guard: manager, is_logged_in, the certificate, and the engine with
\* manager.sign as sign_fn.  A panic of the engine unwinds through the guard
\* and poisons the mutex, or ends the process when the build aborts on panic.
SignPdf(t) ==
    /\ a_pc[t] = "idle"
    /\ app_mu = 0
    /\ \E valid \in BOOLEAN, stage \in SignPdfStages :
          IF Rejected(valid) # ""
          THEN /\ CommandReturns(t, CommandResult("sign_pdf", Rejected(valid)))
               /\ UNCHANGED poisoned
          ELSE IF session = 0
          THEN /\ CommandReturns(t, CommandResult("sign_pdf", "not logged in"))
               /\ UNCHANGED poisoned
          ELSE IF certificate_der = <<>>
          THEN /\ CommandReturns(t, CommandResult("sign_pdf", "failed"))
               /\ UNCHANGED poisoned
          ELSE IF signing_key = 0 /\ stage \in {"token", "panic", "written"}
          THEN /\ CommandReturns(t, [CommandResult("sign_pdf", "failed")
                                        EXCEPT !.read_input = TRUE])
               /\ UNCHANGED poisoned
          ELSE IF stage = "panic"
          THEN \/ /\ a_pc' = [a_pc EXCEPT ![t] = "panicked"]
                  /\ a_cmd' = [a_cmd EXCEPT ![t] = PdfOutcome(stage)]
                  /\ poisoned' = TRUE
               \/ /\ a_pc' = [u \in Threads |-> "aborted"]
                  /\ a_cmd' = [a_cmd EXCEPT ![t] = PdfOutcome(stage)]
                  /\ UNCHANGED poisoned
          ELSE /\ CommandReturns(t, PdfOutcome(stage))
               /\ UNCHANGED poisoned
    /\ UNCHANGED <<token_manager, contexts, a_path, a_ctx, a_ret, app_mu, a_old>>
    /\ ManagerUntouched

\* the caller has the outcome of the command
CommandReturn(t) ==
    /\ a_pc[t] \in {"cmd_returned", "panicked"}
    /\ a_pc' = [a_pc EXCEPT ![t] = "idle"]
    /\ a_cmd' = [a_cmd EXCEPT ![t] = NoCommand]
    /\ UNCHANGED <<token_manager, contexts, a_path, a_ctx, a_ret, app_mu, a_old,
                   poisoned>>
    /\ ManagerUntouched

AppStep(t) ==
    \/ InitTokenManagerCall(t)
    \/ InitTakeOld(t)
    \/ DropLogout(t)
    \/ DropContext(t)
    \/ InitSleep(t)
    \/ NewValidate(t)
    \/ NewLoad(t)
    \/ NewInitialize(t)
    \/ InitStore(t)
    \/ InitStoreAssign(t)
    \/ InitTokenManagerReturn(t)
    \/ ListTokens(t)
    \/ LoginToken(t)
    \/ GetCertificate(t)
    \/ LogoutToken(t)
    \/ SignData(t)
    \/ SignPdf(t)
    \/ CommandReturn(t)

\* Commands are dispatched on a thread pool: calls may overlap
AppNext ==
    (\E t \in Threads : AppStep(t))
        /\ UNCHANGED <<pdf_vars, prep_vars, unit_vars>> /\ TokenThreadsUntouched

(***************************************************************************)
(* Properties of the command layer                                         *)
(***************************************************************************)
\* C6: under any interleaving of init_token_manager calls at most one
\* provider context is loaded at any time, and a call loads its context only
\* when no context exists (the previous one has been dropped).
C6_LibraryTransitionsSerialized ==
    /\ Cardinality(contexts) <= 1
    /\ \A t \in Threads : a_pc[t] = "new_initialize" => contexts = {Context(a_ctx[t])}

\* Successive positions of one init_token_manager call
InitOrder ==
    { <<"idle", "take_old">>,
      <<"take_old", "returned">>, <<"take_old", "drop_logout">>, <<"take_old", "sleep">>,
      <<"drop_logout", "drop_context">>, <<"drop_context", "sleep">>,
      <<"sleep", "new_validate">>,
      <<"new_validate", "new_load">>, <<"new_validate", "returned">>,
      <<"new_load", "new_initialize">>, <<"new_load", "returned">>,
      <<"new_initialize", "store">>, <<"new_initialize", "returned">>,
      <<"store", "returned">>, <<"store", "store_drop_logout">>,
      <<"store_drop_logout", "store_drop_context">>,
      <<"store_drop_context", "returned">>,
      <<"returned", "idle">> }

InitPositions == {p[1] : p \in InitOrder}

OtherPath(t) == token_manager # 0 /\ library_path(token_manager) # a_path[t]

SamePath(t) == token_manager # 0 /\ library_path(token_manager) = a_path[t]

\* C12: a call that gets the lock and finds a manager of another path takes
\* it out and drops it, the session logged out and closed before the context
\* goes, then
\* sleeps, then validates and loads the new library, initializes it and
\* stores the new manager, in that order; the manager it stores has no
\* session, key, certificate or chain.
C12_ReinitializationOrder ==
    [][\A t \in Threads :
          /\ (a_pc'[t] # a_pc[t] /\ {a_pc[t], a_pc'[t]} \subseteq InitPositions)
                => <<a_pc[t], a_pc'[t]>> \in InitOrder
          /\ (a_pc[t] = "take_old" /\ a_pc'[t] \in InitPositions \ {"take_old"}
                /\ OtherPath(t) /\ ~poisoned)
                => (a_pc'[t] = "drop_logout" /\ token_manager' = 0)
          /\ (a_pc[t] = "drop_logout" /\ a_pc'[t] = "drop_context")
                => /\ session' = 0
                   /\ open_sessions' = open_sessions \ {session}
                   /\ \E c \in contexts' : c.id = a_old[t]
          /\ (a_pc[t] = "drop_context" /\ a_pc'[t] = "sleep")
                => /\ session = 0
                   /\ \A c \in contexts' : c.id # a_old[t]
          /\ (a_pc[t] \in {"store", "store_drop_context"} /\ a_pc'[t] = "returned"
                /\ ~poisoned)
                => /\ token_manager' = a_ctx[t]
                   /\ a_ret'[t] = "ok"
                   /\ NoneSet(Fields')
      ]_vars

\* a call has dropped a manager that had been logged in and stored its own
C12_Witness ==
    \E t \in Threads :
        /\ a_pc[t] = "returned"
        /\ a_ret[t] = "ok"
        /\ a_old[t] # 0
        /\ a_ctx[t] # 0
        /\ token_manager = a_ctx[t]
        /\ stored_once
        /\ Cardinality(contexts) = 1

\* C13: a call whose path is the path of the stored manager returns Ok and
\* leaves the manager, its session, key handle, certificate and chain, the
\* token sessions and the provider contexts as they are.
C13_SamePathIsNoOp ==
    [][\A t \in Threads :
          (a_pc[t] = "take_old" /\ a_pc'[t] \in InitPositions \ {"take_old"}
              /\ SamePath(t))
              => /\ a_pc'[t] = "returned"
                 /\ a_ret'[t] = "ok"
                 /\ UNCHANGED <<token_manager, contexts, session, signing_key,
                                certificate_der, certificate_chain, open_sessions,
                                session_ctx>>
      ]_vars

\* C15: a stored session implies that the context through which it was
\* opened is still loaded and initialized.
C15_LiveSessionHasLiveContext ==
    session # 0 => \E c \in contexts : c.id = session_ctx /\ c.initialized

\* C27: sign_pdf and sign_data reach the token's sign operation only if a
\* manager is stored and a login on it succeeded with no logout and no drop
\* of that manager since; otherwise they return an error without having read
\* the input, invoked the token or written anything.
C27_SigningNeedsLiveLogin ==
    [][\A t \in Threads :
          (a_pc[t] = "idle" /\ a_cmd'[t].name \in {"sign_pdf", "sign_data"})
              => LET ready == token_manager # 0 /\ login_live
                 IN  /\ a_cmd'[t].token_sign => ready
                     /\ ~ready => /\ a_cmd'[t].result \notin {"ok", "panicked"}
                                  /\ ~a_cmd'[t].read_input
                                  /\ ~a_cmd'[t].token_sign
                                  /\ ~a_cmd'[t].wrote
      ]_vars

\* one caller's sign_data was refused as not logged in, after which a login
\* succeeded and another caller's sign_pdf wrote its output
C27_Witness ==
    \E t, u \in Threads :
        /\ a_cmd[t].name = "sign_pdf"
        /\ a_cmd[t].wrote
        /\ login_live
        /\ a_cmd[u].name = "sign_data"
        /\ a_cmd[u].result = "not logged in"

\* C28: a call that has taken out and dropped a manager of another path and
\* then fails to create the new one (path rejected, load or initialize
\* failed) returns an error and stores nothing: the old manager was logged
\* out and dropped under the guard, the state holds a manager again only
\* once some init_token_manager has stored one, and as long as none is
\* stored list_tokens, login_token, get_certificate, sign_data and sign_pdf
\* fail as not initialized (login_token and sign_pdf with arguments they
\* reject fail on those first).
C28_FailedReinitLeavesNoManager ==
    [][\A t \in Threads :
          /\ (a_pc[t] = "drop_context" /\ a_pc'[t] = "sleep")
                => /\ token_manager' = 0
                   /\ session' = 0
                   /\ open_sessions' = {}
                   /\ \A c \in contexts' : c.id # a_old[t]
          /\ (a_pc[t] \in {"new_validate", "new_load", "new_initialize"}
                /\ a_pc'[t] = "returned" /\ a_old[t] # 0)
                => /\ a_ret'[t] = "err"
                   /\ token_manager' = token_manager
                   /\ a_ctx'[t] = 0
          /\ (token_manager' # token_manager /\ token_manager' # 0)
                => \E u \in Threads :
                      /\ a_pc[u] \in {"store", "store_drop_context"}
                      /\ a_pc'[u] = "returned"
                      /\ a_ret'[u] = "ok"
          /\ (a_pc[t] = "idle" /\ token_manager = 0
                /\ a_cmd'[t].name \in {"list_tokens", "login_token",
                                       "get_certificate", "sign_data", "sign_pdf"})
                => \/ a_cmd'[t].result = "not initialized"
                   \/ /\ a_cmd'[t].name \in {"login_token", "sign_pdf"}
                      /\ a_cmd'[t].result = "invalid input"
      ]_vars

\* a call has dropped a manager that had been logged in, its load of the
\* other library has failed, and a sign_pdf of the other caller was refused
C28_Witness ==
    \E t, u \in Threads :
        /\ a_pc[t] = "returned"
        /\ a_ret[t] = "err"
        /\ a_old[t] # 0
        /\ a_ctx[t] = 0
        /\ stored_once
        /\ token_manager = 0
        /\ contexts = {}
        /\ a_cmd[u].name = "sign_pdf"
        /\ a_cmd[u].result = "not initialized"

(***************************************************************************)
(* build_certificate_chain, one loop iteration per step                    *)
(* (pkcs11/manager.rs:308-370).  find_certificate_chain passes the first   *)
(* certificate object of the token as the end entity.                      *)
(***************************************************************************)
\* Longest certificate list a token hands out in the model
MaxCerts == 3

\* A second end entity of CA 1
CertSibling == MakeCert(8, 1, 5, CertRestSmall)

\* Two certificates that issue each other
CertCrossA == MakeCert(3, 6, 5, CertRestSmall)

CertCrossB == MakeCert(4, 5, 6, CertRestSmall)

\* A certificate object whose value is not a certificate
CertGarbage == <<0, 1, 2>>

ChainCerts == {CertEE, CertCA, CertOther, CertSibling, CertCrossA, CertCrossB,
               CertGarbage}

CertLists == UNION {[1..n -> ChainCerts] : n \in 1..MaxCerts}

ChainInit ==
    /\ c_pc = "idle"
    /\ c_all_certs = <<>>
    /\ c_chain = <<>>
    /\ c_hops = 0

\* manager.rs:309-323: end_entity = all_certs[0]; chain = vec![end_entity]
BuildChainCall ==
    /\ c_pc = "idle"
    /\ \E all_certs \in CertLists :
          /\ c_all_certs' = all_certs
          /\ c_chain' = <<all_certs[1]>>
    /\ c_hops' = 0
    /\ c_pc' = "loop"

\* manager.rs:328-367: one iteration of the for loop, which either pushes the
\* issuer found or breaks
BuildChainIteration ==
    /\ c_pc = "loop"
    /\ c_hops < MAX_CHAIN_LENGTH
    /\ LET extended == chain_extend(c_chain, c_all_certs, 1)
       IN  IF extended = c_chain
           THEN /\ c_pc' = "done"
                /\ UNCHANGED <<c_chain, c_hops>>
           ELSE /\ c_chain' = extended
                /\ c_hops' = c_hops + 1
                /\ c_pc' = "loop"
    /\ UNCHANGED c_all_certs

\* manager.rs:328: the range 0..MAX_CHAIN_LENGTH is exhausted
BuildChainExhausted ==
    /\ c_pc = "loop"
    /\ c_hops = MAX_CHAIN_LENGTH
    /\ c_pc' = "done"
    /\ UNCHANGED <<c_all_certs, c_chain, c_hops>>

\* manager.rs:369: the chain is returned and the call is over
BuildChainReturn ==
    /\ c_pc = "done"
    /\ c_pc' = "idle"
    /\ c_all_certs' = <<>>
    /\ c_chain' = <<>>
    /\ c_hops' = 0

ChainNext ==
    /\ \/ BuildChainCall
       \/ BuildChainIteration
       \/ BuildChainExhausted
       \/ BuildChainReturn
    /\ UNCHANGED <<pdf_vars, tok_vars, app_vars, prep_vars, tsa_vars, len_vars,
                   slot_vars>>

(***************************************************************************)
(* Properties of the chain builder                                         *)
(***************************************************************************)
\* The tail of the chain has an issuer on the token other than itself
TailHasIssuer ==
    LET tail == c_chain[Len(c_chain)]
    IN  \E i \in 1..Len(c_all_certs) :
           /\ c_all_certs[i] # tail
           /\ x509_from_der(c_all_certs[i]).ok
           /\ x509_from_der(c_all_certs[i]).subject = x509_from_der(tail).issuer

TailSelfSigned ==
    LET cert == x509_from_der(c_chain[Len(c_chain)])
    IN  cert.ok /\ cert.issuer = cert.subject

\* C21: the chain starts with the end entity; every further element is a
\* certificate of the token whose subject is the issuer of the element before
\* it; the chain never has more than MAX_CHAIN_LENGTH + 1 elements; when the
\* call is over the tail is self-signed (or cannot be parsed), or no other
\* certificate of the token matches its issuer, or MAX_CHAIN_LENGTH hops were
\* made; and every call comes to its end.
C21_ChainWellFormedAndBounded ==
    /\ [](c_pc # "idle" =>
            /\ c_chain[1] = c_all_certs[1]
            /\ Len(c_chain) = c_hops + 1
            /\ Len(c_chain) <= MAX_CHAIN_LENGTH + 1
            /\ \A i \in 2..Len(c_chain) :
                  /\ \E k \in 1..Len(c_all_certs) : c_all_certs[k] = c_chain[i]
                  /\ x509_from_der(c_chain[i]).ok
                  /\ x509_from_der(c_chain[i]).subject
                        = x509_from_der(c_chain[i - 1]).issuer)
    /\ [](c_pc = "done" =>
            \/ ~x509_from_der(c_chain[Len(c_chain)]).ok
            \/ TailSelfSigned
            \/ ~TailHasIssuer
            \/ c_hops = MAX_CHAIN_LENGTH)
    /\ (c_pc = "loop") ~> (c_pc = "done")

\* Two certificates that issue each other are followed for all
\* MAX_CHAIN_LENGTH hops and the call ends with MAX_CHAIN_LENGTH + 1 elements
C21_Witness ==
    /\ c_pc = "done"
    /\ c_all_certs = <<CertCrossA, CertCrossB>>
    /\ Len(c_chain) = MAX_CHAIN_LENGTH + 1
    /\ TailHasIssuer

(***************************************************************************)
(* TsaClient::get_timestamp (tsa.rs:88-117) with the response parser       *)
(* (tsa.rs:223-320).  The HTTP client and the servers are outside the      *)
(* repository: a request ends with a transport error, a non-success status *)
(* or a response body.                                                     *)
(***************************************************************************)
VNPT_HTTPS == [scheme |-> "https", rest |-> "ca.vnpt.vn/tsa"]

VNPT_HTTP == [scheme |-> "http", rest |-> "ca.vnpt.vn/tsa"]

VIETTEL_HTTPS == [scheme |-> "https", rest |-> "tsa.viettel-ca.vn"]

VIETTEL_HTTP == [scheme |-> "http", rest |-> "tsa.viettel-ca.vn"]

FPT_HTTPS == [scheme |-> "https", rest |-> "tsa.fpt.vn"]

FPT_HTTP == [scheme |-> "http", rest |-> "tsa.fpt.vn"]

is_insecure(url) == url.scheme = "http"

\* TsaConfig::default (tsa.rs:45-61)
TsaConfigDefault ==
    [primary_url |-> VNPT_HTTPS,
     fallback_urls |-> <<VIETTEL_HTTPS, FPT_HTTPS, VNPT_HTTP, VIETTEL_HTTP, FPT_HTTP>>]

\* Configurations a client is built with: the default one and three custom ones
TsaConfigs ==
    { TsaConfigDefault,
      [primary_url |-> FPT_HTTPS, fallback_urls |-> <<>>],
      [primary_url |-> VIETTEL_HTTPS, fallback_urls |-> <<FPT_HTTPS>>],
      [primary_url |-> VIETTEL_HTTP, fallback_urls |-> <<VNPT_HTTPS, FPT_HTTPS>>] }

\* parse_asn1_length (tsa.rs:296-320); data is the slice the length starts at
parse_asn1_length(data) ==
    IF Len(data) = 0
    THEN [ok |-> FALSE, consumed |-> 0, length |-> 0, message |-> "Unexpected end of data"]
    ELSE IF data[1] < 128
    THEN [ok |-> TRUE, consumed |-> 1, length |-> data[1], message |-> ""]
    ELSE LET num_bytes == data[1] % 128
         IN  IF num_bytes = 0 \/ num_bytes > 4 \/ Len(data) < 1 + num_bytes
             THEN [ok |-> FALSE, consumed |-> 0, length |-> 0,
                   message |-> "Invalid length encoding"]
             ELSE [ok |-> TRUE, consumed |-> 1 + num_bytes,
                   length |-> IF num_bytes = 1 THEN data[2]
                              ELSE IF num_bytes = 2 THEN data[2] * 256 + data[3]
                              ELSE IF num_bytes = 3
                                   THEN (data[2] * 256 + data[3]) * 256 + data[4]
                              ELSE ((data[2] * 256 + data[3]) * 256 + data[4]) * 256
                                   + data[5],
                   message |-> ""]

TsaOk(token) == [kind |-> "ok", token |-> token, message |-> ""]

TsaErr(message) == [kind |-> "err", token |-> <<>>, message |-> message]

\* An index or a slice bound beyond the end of the response
TsaPanic == [kind |-> "panic", token |-> <<>>, message |-> "index out of bounds"]

NoTsaReturn == [kind |-> "none", token |-> <<>>, message |-> ""]

\* parse_timestamp_response (tsa.rs:223-284)
parse_timestamp_response(response) ==
    IF Len(response) < 5 THEN TsaErr("Response too short")
    ELSE IF response[1] # 48 THEN TsaErr("Invalid response: not a SEQUENCE")
    ELSE
    LET outer == parse_asn1_length(Tail(response))
    IN  IF ~outer.ok THEN TsaErr(outer.message)
        ELSE IF 1 + outer.consumed > Len(response) THEN TsaPanic
        ELSE
        LET content == Slice(response, 1 + outer.consumed, Len(response))
        IN  IF Len(content) = 0 THEN TsaPanic
            ELSE IF content[1] # 48 THEN TsaErr("Invalid PKIStatusInfo")
            ELSE
            LET status == parse_asn1_length(Tail(content))
                status_info_len == 1 + status.consumed + status.length
            IN  IF ~status.ok THEN TsaErr(status.message)
                ELSE IF status_info_len > Len(content) THEN TsaPanic
                ELSE
                LET status_content ==
                        Slice(content, 1 + status.consumed, status_info_len)
                IN  IF /\ Len(status_content) >= 3
                       /\ status_content[1] = 2
                       /\ status_content[3] > 1
                    THEN TsaErr("TSA rejected request")
                    ELSE IF Len(content) <= status_info_len
                    THEN TsaErr("No TimeStampToken in response")
                    ELSE
                    LET token_data == Slice(content, status_info_len, Len(content))
                        token == parse_asn1_length(Tail(token_data))
                        total_token_len == 1 + token.consumed + token.length
                    IN  IF token_data[1] # 48 THEN TsaErr("Invalid TimeStampToken")
                        ELSE IF ~token.ok THEN TsaErr(token.message)
                        ELSE IF total_token_len > Len(token_data) THEN TsaPanic
                        ELSE TsaOk(Slice(token_data, 0, total_token_len))

\* TimeStampResp with status granted and a token
ResponseGranted == <<48, 10, 48, 3, 2, 1, 0, 48, 3, 2, 1, 0>>

\* TimeStampResp with status grantedWithMods and a token
ResponseGrantedWithMods == <<48, 10, 48, 3, 2, 1, 1, 48, 3, 2, 1, 0>>

\* TimeStampResp with status rejection and no token
ResponseRejected == <<48, 5, 48, 3, 2, 1, 2>>

\* A body that is not a TimeStampResp
ResponseNotDer == <<60, 104, 116, 109, 108, 62>>

\* TimeStampResp whose token is cut short
ResponseTruncated == <<48, 10, 48, 3, 2, 1, 0, 48, 5, 2, 1, 0>>

ResponseBodies == {ResponseGranted, ResponseGrantedWithMods, ResponseRejected,
                   ResponseNotDer, ResponseTruncated}

TsaInit ==
    /\ tsa_pc = "idle"
    /\ urls = <<>>
    /\ url_idx = 0
    /\ attempted = <<>>
    /\ last_error = ""
    /\ tsa_ret = NoTsaReturn

\* tsa.rs:88-101: the request is built and urls is primary_url followed by
\* fallback_urls
GetTimestampCall ==
    /\ tsa_pc = "idle"
    /\ \E config \in TsaConfigs :
          urls' = <<config.primary_url>> \o config.fallback_urls
    /\ url_idx' = 1
    /\ attempted' = <<>>
    /\ last_error' = ""
    /\ tsa_ret' = NoTsaReturn
    /\ tsa_pc' = "loop"

\* tsa.rs:104-113 with send_timestamp_request (tsa.rs:196-219): one iteration
\* of the for loop.  A failed exchange is remembered and the loop goes on; a
\* response body ends the call with whatever parse_timestamp_response makes
\* of it.
TryUrl ==
    /\ tsa_pc = "loop"
    /\ url_idx <= Len(urls)
    /\ attempted' = Append(attempted, urls[url_idx])
    /\ \/ \E e \in {"HTTP request failed", "TSA returned error status"} :
             /\ last_error' = e
             /\ url_idx' = url_idx + 1
             /\ UNCHANGED <<tsa_pc, tsa_ret>>
       \/ \E response \in ResponseBodies :
             /\ tsa_ret' = parse_timestamp_response(response)
             /\ tsa_pc' = "done"
             /\ UNCHANGED <<last_error, url_idx>>
    /\ UNCHANGED urls

\* tsa.rs:116: every URL failed
AllUrlsFailed ==
    /\ tsa_pc = "loop"
    /\ url_idx > Len(urls)
    /\ tsa_ret' = TsaErr(IF last_error = "" THEN "No TSA servers available"
                         ELSE last_error)
    /\ tsa_pc' = "done"
    /\ UNCHANGED <<urls, url_idx, attempted, last_error>>

\* The caller has the result; the client is ready for the next call
GetTimestampReturn ==
    /\ tsa_pc = "done"
    /\ tsa_pc' = "idle"
    /\ urls' = <<>>
    /\ url_idx' = 0
    /\ attempted' = <<>>
    /\ last_error' = ""
    /\ tsa_ret' = NoTsaReturn

TsaNext ==
    /\ \/ GetTimestampCall
       \/ TryUrl
       \/ AllUrlsFailed
       \/ GetTimestampReturn
    /\ UNCHANGED <<pdf_vars, tok_vars, app_vars, prep_vars, chain_vars, len_vars,
                   slot_vars>>

(***************************************************************************)
(* Properties of the TSA client                                            *)
(***************************************************************************)
\* C24: the URLs are attempted in the order primary, then each fallback (in
\* the default configuration every HTTPS endpoint before any HTTP one); the
\* call returns the token of the first URL that delivers a valid one, and it
\* returns an error only after every configured URL has been attempted.
C24_UrlsTriedInOrderUntilToken ==
    /\ IsPrefix(attempted, urls)
    /\ urls = <<TsaConfigDefault.primary_url>> \o TsaConfigDefault.fallback_urls
          => \A i, j \in 1..Len(urls) :
                (i < j /\ ~is_insecure(urls[j])) => ~is_insecure(urls[i])
    /\ tsa_pc = "done" =>
          \/ /\ tsa_ret.kind = "ok"
             /\ tsa_ret.token \in TimestampTokens
          \/ /\ tsa_ret.kind = "err"
             /\ attempted = urls

(***************************************************************************)
(* DER lengths: extend_with_length (pdf.rs:1158-1174) read back by         *)
(* parse_asn1_length (tsa.rs:296-320) and get_length_bytes                 *)
(* (pdf.rs:1177-1186).                                                     *)
(***************************************************************************)
\* How far around each boundary the content lengths are drawn
LengthWindow == 20

LengthBoundaries == {0, 128, 256, 65536, 16777216}

\* Content lengths below 2^24: those within LengthWindow of a boundary, and
\* a sample of each range taken at a prime stride
LengthInputs ==
    UNION { {n \in (b - LengthWindow)..(b + LengthWindow - 1) : n >= 0 /\ n < 16777216}
            : b \in LengthBoundaries }
    \cup {k * 251 : k \in 0..261}
    \cup {k * 65521 : k \in 0..256}

\* Tags the builders start a buffer with before the length is appended
LengthTags == { <<48>>, <<160>> }

NotParsed == [ok |-> FALSE, consumed |-> 0, length |-> 0, message |-> ""]

LenInit ==
    /\ len_pc = "idle"
    /\ len_in = 0
    /\ len_tag = <<>>
    /\ len_buf = <<>>
    /\ len_parsed = NotParsed
    /\ len_bytes = 0

\* A builder starts a buffer with a tag and has a content of len bytes
LengthCall ==
    /\ len_pc = "idle"
    /\ \E n \in LengthInputs, tag \in LengthTags :
          /\ len_in' = n
          /\ len_tag' = tag
          /\ len_buf' = tag
    /\ len_pc' = "input"
    /\ UNCHANGED <<len_parsed, len_bytes>>

ExtendWithLength ==
    /\ len_pc = "input"
    /\ len_buf' = extend_with_length(len_buf, len_in)
    /\ len_pc' = "encoded"
    /\ UNCHANGED <<len_in, len_tag, len_parsed, len_bytes>>

\* The reader is at the first byte after the tag
ParseLength ==
    /\ len_pc = "encoded"
    /\ len_parsed' = parse_asn1_length(Slice(len_buf, Len(len_tag), Len(len_buf)))
    /\ len_bytes' = get_length_bytes(Slice(len_buf, Len(len_tag), Len(len_buf)))
    /\ len_pc' = "parsed"
    /\ UNCHANGED <<len_in, len_tag, len_buf>>

LengthDone ==
    /\ len_pc = "parsed"
    /\ len_pc' = "idle"
    /\ len_in' = 0
    /\ len_tag' = <<>>
    /\ len_buf' = <<>>
    /\ len_parsed' = NotParsed
    /\ len_bytes' = 0

LengthNext ==
    /\ \/ LengthCall
       \/ ExtendWithLength
       \/ ParseLength
       \/ LengthDone
    /\ UNCHANGED <<pdf_vars, tok_vars, app_vars, prep_vars, chain_vars, tsa_vars,
                   slot_vars>>

(***************************************************************************)
(* Properties of the DER length encoding                                   *)
(***************************************************************************)
\* The bytes extend_with_length appended to the buffer
Emitted == Slice(len_buf, Len(len_tag), Len(len_buf))

\* Big-endian value of a byte string
RECURSIVE BigEndian(_)
BigEndian(bytes) ==
    IF Len(bytes) = 0 THEN 0
    ELSE BigEndian(SubSeq(bytes, 1, Len(bytes) - 1)) * 256 + bytes[Len(bytes)]

\* C25: for a content length n below 2^24 extend_with_length leaves the
\* buffer's earlier bytes alone and appends the minimal DER length: the byte
\* n for n < 128, else 0x80 + k followed by the k-byte big-endian value of n
\* with a non-zero first byte, k being 1 up to 255, 2 up to 65535 and 3 above;
\* parse_asn1_length on these bytes gives (their number, n) and
\* get_length_bytes gives their number.
C25_LengthRoundTrip ==
    /\ len_pc \in {"encoded", "parsed"} =>
          /\ IsPrefix(len_tag, len_buf)
          /\ Len(Emitted) = IF len_in < 128 THEN 1
                            ELSE IF len_in < 256 THEN 2
                            ELSE IF len_in < 65536 THEN 3
                            ELSE 4
          /\ \A i \in 1..Len(Emitted) : Emitted[i] \in 0..255
          /\ IF len_in < 128
             THEN Emitted = <<len_in>>
             ELSE /\ Emitted[1] = 128 + Len(Emitted) - 1
                  /\ Emitted[2] # 0
                  /\ BigEndian(Tail(Emitted)) = len_in
    /\ len_pc = "parsed" =>
          /\ len_parsed.ok
          /\ len_parsed.consumed = Len(Emitted)
          /\ len_parsed.length = len_in
          /\ len_bytes = Len(Emitted)

\* The first content length that needs three value bytes has been written
\* and read back
C25_Witness ==
    /\ len_pc = "parsed"
    /\ len_in = 65536
    /\ Emitted = <<131, 1, 0, 0>>
    /\ len_parsed.length = 65536

(***************************************************************************)
(* TokenManager::list_slots (pkcs11/manager.rs:90-123).  The provider      *)
(* library is outside the repository: the enumeration and each             *)
(* get_token_info may succeed or fail.                                     *)
(***************************************************************************)
\* Largest number of slots the provider reports
MaxSlots == 3

SlotIds == 0..(MaxSlots - 1)

\* Enumerations of slots holding a token: each slot at most once
SlotLists ==
    {sl \in UNION {[1..n -> SlotIds] : n \in 0..MaxSlots} :
        \A i, j \in 1..Len(sl) : i # j => sl[i] # sl[j]}

\* manager.rs:137-144: the TokenInfo built for a slot
TokenInfo(slot) == [slot_id |-> slot, has_token |-> TRUE]

NoSlotsReturn == [kind |-> "none", tokens |-> <<>>, message |-> "", slot_count |-> 0, errors |-> <<>>]

SlotsInit ==
    /\ ls_pc = "idle"
    /\ slots = <<>>
    /\ slot_idx = 0
    /\ tokens = <<>>
    /\ errors = <<>>
    /\ introspected = <<>>
    /\ ls_ret = NoSlotsReturn

\* manager.rs:91-101: get_slots_with_token fails, returns no slot, or
\* returns the slots the loop will visit
ListSlotsCall ==
    /\ ls_pc = "idle"
    /\ \/ /\ ls_ret' = [kind |-> "err", tokens |-> <<>>,
                         message |-> "Failed to enumerate slots",
                         slot_count |-> 0, errors |-> <<>>]
          /\ ls_pc' = "done"
          /\ UNCHANGED <<slots, slot_idx>>
       \/ \E sl \in SlotLists :
             /\ slots' = sl
             /\ IF Len(sl) = 0
                THEN /\ ls_ret' = [kind |-> "ok", tokens |-> <<>>, message |-> "",
                                   slot_count |-> 0, errors |-> <<>>]
                     /\ ls_pc' = "done"
                     /\ UNCHANGED slot_idx
                ELSE /\ slot_idx' = 1
                     /\ ls_pc' = "loop"
                     /\ UNCHANGED ls_ret
    /\ UNCHANGED <<tokens, errors, introspected>>

\* manager.rs:103-111: one iteration of the for loop
IntrospectSlot ==
    /\ ls_pc = "loop"
    /\ \E ok \in BOOLEAN :
          /\ introspected' = Append(introspected, ok)
          /\ IF ok
             THEN /\ tokens' = Append(tokens, TokenInfo(slots[slot_idx]))
                  /\ UNCHANGED errors
             ELSE /\ errors' = Append(errors, slots[slot_idx])
                  /\ UNCHANGED tokens
    /\ slot_idx' = slot_idx + 1
    /\ ls_pc' = IF slot_idx = Len(slots) THEN "after" ELSE "loop"
    /\ UNCHANGED <<slots, ls_ret>>

\* variant: any failed slot makes the call fail
ListSlotsResult_any_error ==
    /\ ls_pc = "after"
    /\ ls_ret' = IF errors # <<>>
                 THEN [kind |-> "err", tokens |-> <<>>,
                       message |-> "Found slot(s) with token but failed to read token info",
                       slot_count |-> Len(slots), errors |-> errors]
                 ELSE [kind |-> "ok", tokens |-> tokens, message |-> "",
                       slot_count |-> 0, errors |-> <<>>]
    /\ ls_pc' = "done"
    /\ UNCHANGED <<slots, slot_idx, tokens, errors, introspected>>

\* manager.rs:113-122
ListSlotsResult ==
    /\ ls_pc = "after"
    /\ ls_ret' = IF tokens = <<>> /\ errors # <<>>
                 THEN [kind |-> "err", tokens |-> <<>>,
                       message |-> "Found slot(s) with token but failed to read token info",
                       slot_count |-> Len(slots), errors |-> errors]
                 ELSE [kind |-> "ok", tokens |-> tokens, message |-> "",
                       slot_count |-> 0, errors |-> <<>>]
    /\ ls_pc' = "done"
    /\ UNCHANGED <<slots, slot_idx, tokens, errors, introspected>>

\* The caller has the result
ListSlotsReturn ==
    /\ ls_pc = "done"
    /\ ls_pc' = "idle"
    /\ slots' = <<>>
    /\ slot_idx' = 0
    /\ tokens' = <<>>
    /\ errors' = <<>>
    /\ introspected' = <<>>
    /\ ls_ret' = NoSlotsReturn

SlotsNext ==
    /\ \/ ListSlotsCall
       \/ IntrospectSlot
       \/ ListSlotsResult
       \/ ListSlotsReturn
    /\ UNCHANGED <<pdf_vars, tok_vars, app_vars, prep_vars, chain_vars, tsa_vars,
                   len_vars>>

(***************************************************************************)
(* Properties of list_slots                                                *)
(***************************************************************************)
\* The TokenInfo of the slots that were introspected successfully, in the
\* order of the enumeration
RECURSIVE SuccessfulSubset(_, _)
SuccessfulSubset(sl, oks) ==
    IF Len(sl) = 0 THEN <<>>
    ELSE (IF oks[1] THEN <<TokenInfo(sl[1])>> ELSE <<>>)
         \o SuccessfulSubset(Tail(sl), Tail(oks))

AggregateError == ls_ret.kind = "err" /\ ls_ret.message # "Failed to enumerate slots"

\* C26: once the enumeration has succeeded, list_slots returns the aggregate
\* error exactly when there is at least one slot with a token and
\* get_token_info failed for every one of them (the error naming all of
\* them); otherwise it returns Ok with the TokenInfo of exactly the slots
\* whose introspection succeeded, in enumeration order, which is the empty
\* list when no slot has a token.
C26_ListSlotsSuccessfulSubset ==
    (ls_pc = "done" /\ ls_ret.message # "Failed to enumerate slots") =>
        /\ Len(introspected) = Len(slots)
        /\ AggregateError <=>
              (Len(slots) >= 1 /\ \A i \in 1..Len(slots) : ~introspected[i])
        /\ AggregateError => ls_ret.slot_count = Len(slots) /\ ls_ret.errors = slots
        /\ ~AggregateError =>
              /\ ls_ret.kind = "ok"
              /\ ls_ret.tokens = SuccessfulSubset(slots, introspected)
        /\ slots = <<>> => ls_ret.kind = "ok" /\ ls_ret.tokens = <<>>

\* Three slots, the middle one failing: the other two are returned in order
C26_Witness ==
    /\ ls_pc = "done"
    /\ Len(slots) = 3
    /\ introspected = <<TRUE, FALSE, TRUE>>
    /\ ls_ret.kind = "ok"
    /\ ls_ret.tokens = <<TokenInfo(slots[1]), TokenInfo(slots[3])>>

(***************************************************************************)
(* Specifications                                                          *)
(***************************************************************************)
Init == PdfInit /\ TokInit /\ AppInit /\ PrepInit /\ ChainInit /\ TsaInit
        /\ LenInit /\ SlotsInit

SpecPdf == Init /\ [][PdfNext /\ UNCHANGED <<tok_vars, app_vars, prep_vars, unit_vars>>]_vars

SpecPrepare == Init /\ [][PrepNext]_vars

SpecTokenSequential == Init /\ [][TokNextSequential]_vars

SpecTokenConcurrent == Init /\ [][TokNextConcurrent]_vars

\* The scheduler runs every caller, and a caller that waits for a guard gets
\* it when the guard is free again and again
SpecTokenFair ==
    /\ Init
    /\ [][TokNextConcurrent]_vars
    /\ \A t \in Threads : SF_t_pc(Progress(t))

SpecApp == Init /\ [][AppNext]_vars

SpecTsa == Init /\ [][TsaNext]_vars

SpecLength == Init /\ [][LengthNext]_vars

SpecSlots == Init /\ [][SlotsNext]_vars

\* The for loop of build_certificate_chain runs on one thread that is not
\* blocked by anything: an iteration that can be taken is taken
SpecChain == Init /\ [][ChainNext]_vars /\ WF_chain_vars(BuildChainIteration)
                 /\ WF_chain_vars(BuildChainExhausted)

=============================================================================
